---- MODULE Spec2Model ----
(***************************************************************************)
(* Placed neighbouring fields of FCPP: the optional-storage primitive      *)
(* (lib/common/option.hpp), the placed<tier,T,p,q> class and the pointwise *)
(* and reduction operators built on it (lib/data/placed.hpp).              *)
(*                                                                         *)
(* Template parameters (tier, T, p, q, the option's enable flag) are       *)
(* carried as record fields, so that one run covers the instantiations the *)
(* bounds allow.  A rejected instantiation (failed static_assert, no       *)
(* viable overload) is the value Rejected.                                 *)
(***************************************************************************)
EXTENDS Integers, Sequences, FiniteSets, TLC

VARIABLES pc, fn, args, res, nops, reads, got,
          opt, other, stream, last,
          track, gps,
          node_tier, program, exports, context, folded

vars == <<pc, fn, args, res, nops, reads, got>>

\* an option object opt, a second object other of the same type, the stream
\* written by serialize, and the last member function called with what it
\* returned
ovars == <<opt, other, stream, last>>

\* a gps_trace object: its member track, and the last call made on it with
\* what it returned
gvars == <<track, gps>>

\* a network of nodes running one aggregate program: the tier each node
\* stores, the call of the program, what each node exported at its last
\* round, the exports each node has received, the result of its last round
nvars == <<node_tier, program, exports, context, folded>>

\* no gps_trace object
GpsIdle ==
    /\ track = <<>>
    /\ gps = [name |-> "none"]

\* no network
NetIdle ==
    /\ node_tier = <<>>
    /\ program = [name |-> "none"]
    /\ exports = <<>>
    /\ context = <<>>
    /\ folded = <<>>

(***************************************************************************)
(* Bounds of the model.                                                    *)
(***************************************************************************)
\* number of bits of tier_t: tiers are 1, 2, ..., 2^(TierBits-1)
TierBits == 2
\* device identifiers are 0..MaxDev
MaxDev == 1
\* integer payloads are 1..MaxVal
MaxVal == 2
\* the nesting depth of the tuple-like and array-like types
MaxDepth == 2

(***************************************************************************)
(* Bit masks of tier_t.                                                    *)
(***************************************************************************)
RECURSIVE Pow2(_)
Pow2(n) == IF n = 0 THEN 1 ELSE 2 * Pow2(n - 1)

\* tier_t(-1)
AllOnes == Pow2(TierBits) - 1

Masks == 0..AllOnes

Tiers == {Pow2(k) : k \in 0..(TierBits - 1)}

Devs == 0..MaxDev

RECURSIVE BitAnd(_, _)
BitAnd(a, b) ==
    IF a = 0 \/ b = 0 THEN 0
    ELSE (a % 2) * (b % 2) + 2 * BitAnd(a \div 2, b \div 2)

RECURSIVE BitOr(_, _)
BitOr(a, b) ==
    IF a = 0 THEN b
    ELSE IF b = 0 THEN a
    ELSE (IF a % 2 = 1 \/ b % 2 = 1 THEN 1 ELSE 0) + 2 * BitOr(a \div 2, b \div 2)

RECURSIVE BitXor(_, _)
BitXor(a, b) ==
    IF a = 0 THEN b
    ELSE IF b = 0 THEN a
    ELSE ((a + b) % 2) + 2 * BitXor(a \div 2, b \div 2)

\* ~y on a tier_t
BitNot(y) == AllOnes - y

\* a faulty variant: the subset test with its arguments exchanged
bitsubset_swapped(x, y) == BitAnd(y, BitNot(x)) = 0

\* bitsubset(x, y): every bit of x is a bit of y
bitsubset(x, y) == ~ (BitAnd(x, BitNot(y)) # 0)

RECURSIVE tier_inf(_)
tier_inf(xs) == IF xs = <<>> THEN AllOnes ELSE BitAnd(Head(xs), tier_inf(Tail(xs)))

RECURSIVE tier_sup(_)
tier_sup(xs) == IF xs = <<>> THEN 0 ELSE BitOr(Head(xs), tier_sup(Tail(xs)))

(***************************************************************************)
(* Values.  A number is kept in halves (n = 2 * value), so that the        *)
(* doubles 0.5, 1.5, ... are exact and a conversion double -> int really   *)
(* truncates.  A value of a field type is the function from device         *)
(* identifiers to numbers; a local value is stored as the constant         *)
(* function with fld = FALSE.                                              *)
(***************************************************************************)
ValueTypes == {"int", "double"}

\* the value types of the conversions: std::string converts to no number
ConvTypes == ValueTypes \cup {"str"}

IntNums == {2 * k : k \in 0..MaxVal}

DoubleNums == {2 * k + 1 : k \in 1..MaxVal}

\* a string is its code
StrNums == {2}

Nums(ty) == IF ty = "int" THEN IntNums ELSE IF ty = "double" THEN DoubleNums ELSE StrNums

\* the value 999 the tests pass as default, as an int or a double
Sentinel == 2 * 999

Const(n) == [d \in Devs |-> n]

Local(ty, n) == [ty |-> ty, fld |-> FALSE, v |-> Const(n)]

Field(ty, f) == [ty |-> ty, fld |-> TRUE, v |-> f]

\* no storage at all (option<T, false> has no member)
NoData == [ty |-> "none", fld |-> FALSE, v |-> Const(0)]

\* T{}: the value-initialised object of a (field) type
DefaultValue(ty, fld) == [ty |-> ty, fld |-> fld, v |-> Const(0)]

\* a field whose values differ from device to device
Ramp(ty) == [d \in Devs |-> IF ty = "int" THEN 2 * (d + 1) ELSE 2 * d + 3]

LocalValues(ty) == {Local(ty, n) : n \in Nums(ty)}

FieldValues(ty) == {Field(ty, Const(n)) : n \in Nums(ty)} \cup {Field(ty, Ramp(ty))}

\* the values of field_type: field<T> if q # 0, T otherwise
ValuesOf(ty, fld) == IF fld THEN FieldValues(ty) ELSE LocalValues(ty)

\* std::is_convertible<A, T> on the value types of the model
is_convertible(A, T) ==
    A = T \/ (A \in {"int", "double", "bool"} /\ T \in {"int", "double", "bool"})

\* conversion of a number of type A to type T (C++ standard conversions)
ConvertNum(A, T, n) ==
    IF T = "int" THEN (IF n >= 0 THEN 2 * (n \div 2) ELSE -(2 * ((-n) \div 2)))
    ELSE IF T = "bool" THEN (IF n # 0 THEN 2 ELSE 0)
    ELSE n

\* conversion of a value of field type FA to the field type (ty, fld):
\* T(a), field<T>(a) (the constant field) or field<T>(field<A>)
ConvertValue(x, ty, fld) ==
    [ty |-> ty, fld |-> fld, v |-> [d \in Devs |-> ConvertNum(x.ty, ty, x.v[d])]]

(***************************************************************************)
(* The elementwise operators, as the user's lambdas and the lambdas of     *)
(* _DEF_UOP/_DEF_BOP apply them to numbers.  A user operator is            *)
(* [ar |-> arity, op |-> name]; arity 3 is the lambda of the tests,        *)
(* [](int a, int b, int c){ return a+b+c; }.                               *)
(***************************************************************************)
UnOps == {"+", "-", "~", "!"}

BinOps == {"+", "-", "*", "/", "%", "^", "&", "|",
           "<", ">", "<=", ">=", "==", "!=", "&&", "||"}

BoolOps == {"<", ">", "<=", ">=", "==", "!=", "&&", "||", "!"}

IntOnlyOps == {"%", "^", "&", "|", "~"}

Lambda(ar, op) == [ar |-> ar, op |-> op]

ArithType(tys) == IF \E k \in DOMAIN tys : tys[k] = "double" THEN "double" ELSE "int"

\* the operator is well-formed on operands of these types
OpCompiles(f, tys) ==
    /\ Len(tys) = f.ar
    /\ \A k \in DOMAIN tys : tys[k] \in {"int", "double", "bool"}
    /\ f.op \in IntOnlyOps => \A k \in DOMAIN tys : tys[k] # "double"
    /\ f.ar = 3 => \A k \in DOMAIN tys : tys[k] = "int"

\* local_result<F, Ss...>: the type of op's result
OpType(f, tys) == IF f.op \in BoolOps THEN "bool" ELSE ArithType(tys)

\* the evaluation has defined behaviour (no division by zero) and a result
\* the halves represent exactly; the calls of the model are made on such
\* operands only
OpDefined(f, tys, ns) ==
    /\ (f.ar = 2 /\ f.op \in {"/", "%"}) => ns[2] # 0
    /\ (f.ar = 2 /\ f.op = "*") => (ns[1] * ns[2]) % 2 = 0
    /\ (f.ar = 2 /\ f.op = "/" /\ ArithType(tys) = "double") => (2 * ns[1]) % ns[2] = 0

UnApply(op, a) ==
    CASE op = "+" -> a
      [] op = "-" -> -a
      [] op = "~" -> -a - 2
      [] op = "!" -> IF a = 0 THEN 2 ELSE 0

BinApply(op, isdouble, a, b) ==
    LET ai == a \div 2
        bi == b \div 2
        Bool(c) == IF c THEN 2 ELSE 0
    IN  CASE op = "+" -> a + b
          [] op = "-" -> a - b
          [] op = "*" -> (a * b) \div 2
          [] op = "/" -> IF b = 0 THEN 0
                         ELSE IF isdouble THEN (2 * a) \div b ELSE 2 * (ai \div bi)
          [] op = "%" -> IF b = 0 THEN 0 ELSE 2 * (ai % bi)
          [] op = "^" -> 2 * BitXor(ai, bi)
          [] op = "&" -> 2 * BitAnd(ai, bi)
          [] op = "|" -> 2 * BitOr(ai, bi)
          [] op = "<" -> Bool(a < b)
          [] op = ">" -> Bool(a > b)
          [] op = "<=" -> Bool(a <= b)
          [] op = ">=" -> Bool(a >= b)
          [] op = "==" -> Bool(a = b)
          [] op = "!=" -> Bool(a # b)
          [] op = "&&" -> Bool(a # 0 /\ b # 0)
          [] op = "||" -> Bool(a # 0 \/ b # 0)

\* a faulty variant: the operands reach the operator in the opposite order
OpApply_swapped(f, tys, ns) ==
    CASE f.ar = 1 -> UnApply(f.op, ns[1])
      [] f.ar = 2 -> BinApply(f.op, ArithType(tys) = "double", ns[2], ns[1])
      [] f.ar = 3 -> ns[1] + ns[2] + ns[3]

OpApply(f, tys, ns) ==
    CASE f.ar = 1 -> UnApply(f.op, ns[1])
      [] f.ar = 2 -> BinApply(f.op, ArithType(tys) = "double", ns[1], ns[2])
      [] f.ar = 3 -> ns[1] + ns[2] + ns[3]

(***************************************************************************)
(* Neighbouring fields (lib/data/field.hpp): pointwise map and folds.      *)
(***************************************************************************)
Types(ys) == [k \in DOMAIN ys |-> ys[k].ty]

NumsAt(ys, d) == [k \in DOMAIN ys |-> ys[k].v[d]]

\* map_hood(op, ys...) is defined on these values
MapDefined(f, ys) == \A d \in Devs : OpDefined(f, Types(ys), NumsAt(ys, d))

\* map_hood(op, ys...): op pointwise; a field as soon as one operand is
map_hood(f, ys) ==
    [ty  |-> OpType(f, Types(ys)),
     fld |-> \E k \in DOMAIN ys : ys[k].fld,
     v   |-> [d \in Devs |-> OpApply(f, Types(ys), NumsAt(ys, d))]]

\* the devices of a domain in increasing order, as the sorted vector
RECURSIVE SortedSeq(_)
SortedSeq(S) ==
    IF S = {} THEN <<>>
    ELSE LET m == CHOOSE x \in S : \A y \in S : x <= y
         IN  <<m>> \o SortedSeq(S \ {m})

RECURSIVE FoldFrom(_, _, _, _, _)
FoldFrom(f, tys, x, acc, ds) ==
    IF ds = <<>> THEN acc
    ELSE FoldFrom(f, tys, x, OpApply(f, tys, <<x.v[Head(ds)], acc>>), Tail(ds))

\* inclusive fold_hood(op, x, dom) on a field or a local
field_fold_hood(f, x, dom) ==
    LET ds == SortedSeq(dom)
    IN  [ty  |-> OpType(f, <<x.ty, x.ty>>),
         fld |-> FALSE,
         v   |-> Const(FoldFrom(f, <<x.ty, x.ty>>, x, x.v[Head(ds)], Tail(ds)))]

\* exclusive fold_hood(op, x, b, dom, i) on a field or a local
field_fold_hood_excl(f, x, b, dom, i) ==
    [ty  |-> OpType(f, <<x.ty, b.ty>>),
     fld |-> FALSE,
     v   |-> Const(FoldFrom(f, <<x.ty, b.ty>>, x, b.v[0], SortedSeq(dom \ {i})))]

(***************************************************************************)
(* option<T, enable> (lib/common/option.hpp).  enable is 0 (never), 1      *)
(* (always) or 2 (run time); ty and fld name the type T.                   *)
(***************************************************************************)
Option(enable, ty, fld, some, data) ==
    [enable |-> enable, ty |-> ty, fld |-> fld, m_some |-> some, m_data |-> data]

\* option<T, false>: every constructor discards its arguments
option_false(ty, fld) == Option(0, ty, fld, FALSE, NoData)

\* option<T, true>(x): m_data(std::forward<T1>(x1))
option_true(ty, fld, x) == Option(1, ty, fld, TRUE, ConvertValue(x, ty, fld))

\* forwarding constructor of option<T, enable>, enable a bool
option_ctor(enable, ty, fld, x) ==
    IF enable = 0 THEN option_false(ty, fld) ELSE option_true(ty, fld, x)

\* T{} of an option: option<T, true>{} value-initialises m_data
option_value_init(enable, ty, fld) ==
    IF enable = 0 THEN option_false(ty, fld)
    ELSE Option(1, ty, fld, TRUE, DefaultValue(ty, fld))

\* a faulty variant: the run-time option returns its slot, present or not
option_get_or_slot(o, x) ==
    IF o.enable = 0 THEN x ELSE o.m_data

\* a faulty variant: front() of the absent option instead of the default passed
option_get_or_front(o, x) ==
    IF o.enable = 0 THEN DefaultValue(o.ty, o.fld)
    ELSE IF o.enable = 1 THEN o.m_data
    ELSE IF o.m_some THEN o.m_data ELSE x

\* get_or(x) of the three specialisations
option_get_or(o, x) ==
    IF o.enable = 0 THEN x
    ELSE IF o.enable = 1 THEN o.m_data
    ELSE IF o.m_some THEN o.m_data ELSE x

\* a faulty variant: front() returns the slot in every specialisation
option_front_slot(o) == o.m_data

\* front() of the three specialisations
option_front(o) == IF o.enable = 0 THEN DefaultValue(o.ty, o.fld) ELSE o.m_data

\* size() of the three specialisations
option_size(o) ==
    IF o.enable = 0 THEN 0
    ELSE IF o.enable = 1 THEN 1
    ELSE IF o.m_some THEN 1 ELSE 0

\* option<T, enable> has a constructor taking an option<A, e1> (enable, e1
\* bools): the forwarding constructor if is_constructible<T, option<A, e1>>,
\* which the explicit operator A() gives for A = T only, or the converting
\* constructor from option<A, enable> if is_convertible<A, T>
option_convertible(enable, ty, fld, o) ==
    \/ o.ty = ty /\ o.fld = fld
    \/ o.enable = enable /\ is_convertible(o.ty, ty) /\ (o.fld => fld)

\* the option<T, enable> so constructed: T(o) = o.front() converted, or nothing
\* a faulty variant: the converted option holds T{}
option_convert_init(enable, ty, fld, o) ==
    IF enable = 0 THEN option_false(ty, fld)
    ELSE Option(1, ty, fld, TRUE, DefaultValue(ty, fld))

option_convert(enable, ty, fld, o) ==
    IF enable = 0 THEN option_false(ty, fld)
    ELSE option_true(ty, fld, option_front(o))

\* option(): nothing to initialise in option<T, false>; = default in
\* option<T, true>, which leaves m_data indeterminate (some value g);
\* m_data(), m_some(false) in option<T, 2>
option_default(enable, ty, fld, g) ==
    IF enable = 0 THEN option_false(ty, fld)
    ELSE IF enable = 1 THEN Option(1, ty, fld, TRUE, g)
    ELSE Option(2, ty, fld, FALSE, DefaultValue(ty, fld))

\* option(T1&& x1) of the three specialisations: m_data(x1), m_some(true)
option_forward(enable, ty, fld, x) ==
    IF enable = 2 THEN Option(2, ty, fld, TRUE, ConvertValue(x, ty, fld))
    ELSE option_ctor(enable, ty, fld, x)

\* option(option const&) = default, operator=(option const&) = default:
\* member by member
option_copy(o) == Option(o.enable, o.ty, o.fld, o.m_some, o.m_data)

\* option(option&&) = default, operator=(option&&) = default: the members
\* are moved; a moved number is a copy
option_move(o) == Option(o.enable, o.ty, o.fld, o.m_some, o.m_data)

\* option<T, enable>(o) for an option o of another type: the forwarding
\* constructor through explicit operator T() (m_some(true) in option<T, 2>),
\* or the converting constructor from the same specialisation, which in
\* option<T, 2> copies m_data and m_some
option_converted(enable, ty, fld, o) ==
    IF enable # 2 THEN option_convert(enable, ty, fld, o)
    ELSE IF o.enable = 2 THEN Option(2, ty, fld, o.m_some, ConvertValue(o.m_data, ty, fld))
    ELSE Option(2, ty, fld, TRUE, ConvertValue(option_front(o), ty, fld))

\* a faulty variant: the slots are compared whether present or not
option_eq_slots(a, b) ==
    IF a.enable = 0 THEN TRUE
    ELSE IF a.enable = 1 THEN a.m_data = b.m_data
    ELSE a.m_some = b.m_some /\ a.m_data = b.m_data

\* operator==(option const& o) of the three specialisations
option_eq(a, b) ==
    IF a.enable = 0 THEN TRUE
    ELSE IF a.enable = 1 THEN a.m_data = b.m_data
    ELSE a.m_some = b.m_some /\ (~ a.m_some \/ a.m_data = b.m_data)

\* empty() of the three specialisations
option_empty(o) ==
    IF o.enable = 0 THEN TRUE
    ELSE IF o.enable = 1 THEN FALSE
    ELSE ~ o.m_some

\* begin(): nullptr or &m_data, as an offset from it
option_begin(o) == 0

\* a faulty variant: the end is one past the slot, present or not
option_end_one(o) == IF o.enable = 0 THEN 0 ELSE 1

\* end(): nullptr, &m_data + 1, &m_data + m_some
option_end(o) ==
    IF o.enable = 0 THEN 0
    ELSE IF o.enable = 1 THEN 1
    ELSE IF o.m_some THEN 1 ELSE 0

\* for (T const& v : o): the values read from begin() up to end()
option_iterate(o) == [k \in 1..(option_end(o) - option_begin(o)) |-> o.m_data]

\* back() of the three specialisations
option_back(o) == IF o.enable = 0 THEN DefaultValue(o.ty, o.fld) ELSE o.m_data

\* explicit operator T() of the three specialisations
option_to_T(o) == IF o.enable = 0 THEN DefaultValue(o.ty, o.fld) ELSE o.m_data

\* o.front() = v, on the reference front() returns in option<T, true> and
\* option<T, 2>
option_write_front(o, v) == [o EXCEPT !.m_data = ConvertValue(v, o.ty, o.fld)]

\* a faulty variant: clear() resets the flag only
option_clear_flag(o) == [o EXCEPT !.m_some = FALSE]

\* clear(): m_some = false; m_data = {};
option_clear(o) == [o EXCEPT !.m_some = FALSE, !.m_data = DefaultValue(o.ty, o.fld)]

\* emplace(xs...): m_some = true; m_data = T(xs...);
option_emplace(o, v) == [o EXCEPT !.m_some = TRUE, !.m_data = ConvertValue(v, o.ty, o.fld)]

\* a stream is the sequence of what was written to it; s & b on a bool
\* writes one byte, 1 or 0, and reads it back as b
stream_bool(b) == Local("bool", IF b THEN 2 ELSE 0)

stream_flag(item) == item.v[0] # 0

\* s & v on an output stream
stream_write(st, item) == Append(st, item)

\* a faulty variant: the payload is written whatever the flag
option_serialize_always(o, st) ==
    IF o.enable = 0 THEN st
    ELSE IF o.enable = 1 THEN stream_write(st, o.m_data)
    ELSE stream_write(stream_write(st, stream_bool(o.m_some)), o.m_data)

\* serialize(S& s) const on an output stream: nothing, m_data, or m_some
\* followed by m_data if m_some
option_serialize(o, st) ==
    IF o.enable = 0 THEN st
    ELSE IF o.enable = 1 THEN stream_write(st, o.m_data)
    ELSE IF o.m_some THEN stream_write(stream_write(st, stream_bool(TRUE)), o.m_data)
    ELSE stream_write(st, stream_bool(FALSE))

\* a faulty variant: the flag is read, the payload never
option_deserialize_stale(o, st) ==
    IF o.enable = 0 THEN [o |-> o, s |-> st]
    ELSE IF o.enable = 1 THEN [o |-> [o EXCEPT !.m_data = Head(st)], s |-> Tail(st)]
    ELSE [o |-> [o EXCEPT !.m_some = stream_flag(Head(st))], s |-> <<>>]

\* serialize(S& s) on an input stream: the object read and the rest of the
\* stream
option_deserialize(o, st) ==
    IF o.enable = 0 THEN [o |-> o, s |-> st]
    ELSE IF o.enable = 1 THEN [o |-> [o EXCEPT !.m_data = Head(st)], s |-> Tail(st)]
    ELSE IF stream_flag(Head(st))
         THEN [o |-> [o EXCEPT !.m_some = TRUE, !.m_data = Head(Tail(st))], s |-> Tail(Tail(st))]
         ELSE [o |-> [o EXCEPT !.m_some = FALSE], s |-> Tail(st)]

(***************************************************************************)
(* placed<tier, T, p, q> (lib/data/placed.hpp).                            *)
(***************************************************************************)
\* the outcome of an instantiation or a call the compiler rejects
Rejected == [kind |-> "rejected"]

\* the outcome of an expression the overloads of placed.hpp do not apply to
NotPlaced == [kind |-> "builtin"]

PlacedType(tier, T, p, q) == [tier |-> tier, T |-> T, p |-> p, q |-> q]

\* field_type is field<T> iff bool(q)
is_field_type(P) == P.q # 0

\* a faulty variant: storage chosen by the visibility bound
option_enable_q(P) == IF BitAnd(P.tier, P.q) # 0 THEN 1 ELSE 0

\* the enable flag of option_type: bool(tier & p)
option_enable(P) == IF BitAnd(P.tier, P.p) # 0 THEN 1 ELSE 0

Placed(P, m_data) ==
    [kind |-> "placed", tier |-> P.tier, T |-> P.T, p |-> P.p, q |-> P.q, m_data |-> m_data]

TypeOf(x) == PlacedType(x.tier, x.T, x.p, x.q)

\* a plain value or a neighbouring field as an operand
Plain(val) == [kind |-> IF val.fld THEN "field" ELSE "local", val |-> val]

\* placed() = default: the option's members are default-initialised, so a
\* stored T is indeterminate (any value g of the field type)
placed_default(P, g) ==
    Placed(P, IF option_enable(P) = 0 THEN option_false(P.T, is_field_type(P))
              ELSE Option(1, P.T, is_field_type(P), TRUE, g))

\* placed(T const& d) : m_data(d)
placed_from_value(P, d) == Placed(P, option_ctor(option_enable(P), P.T, is_field_type(P), d))

\* placed(field<T> const& f) : m_data(maybe_field(bool_constant<(tier&p) and q>, f))
placed_from_field(P, f) ==
    Placed(P, IF option_enable(P) = 1 /\ is_field_type(P)
              THEN option_ctor(1, P.T, TRUE, f)
              ELSE option_value_init(option_enable(P), P.T, is_field_type(P)))

\* a faulty variant: the bounds compared the other way round
is_compatible_reversed(P, A, p1, q1) ==
    is_convertible(A, P.T) /\ bitsubset(p1, P.p) /\ bitsubset(P.q, q1)

\* is_compatible<A, p1, q1> of placed<tier, T, p, q>
is_compatible(P, A, p1, q1) ==
    is_convertible(A, P.T) /\ bitsubset(P.p, p1) /\ bitsubset(q1, P.q)

\* the converting constructors placed(placed<tier, A, p1, q1> const& / &&)
placed_convert(P, f) ==
    IF /\ f.tier = P.tier /\ is_compatible(P, f.T, f.p, f.q)
       /\ option_convertible(option_enable(P), P.T, is_field_type(P), f.m_data)
    THEN Placed(P, option_convert(option_enable(P), P.T, is_field_type(P), f.m_data))
    ELSE Rejected

\* the converting assignments operator=(placed<tier, A, p1, q1> const& / &&)
placed_assign(x, f) ==
    IF /\ f.tier = x.tier /\ is_compatible(TypeOf(x), f.T, f.p, f.q)
       /\ option_convertible(option_enable(TypeOf(x)), x.T, is_field_type(TypeOf(x)), f.m_data)
    THEN [x EXCEPT !.m_data =
            option_convert(option_enable(TypeOf(x)), x.T, is_field_type(TypeOf(x)), f.m_data)]
    ELSE Rejected

\* the declarations the unqualified name swap denotes inside a member of
\* placed: lookup stops at the scope of the class, which declares the member
\* swap(placed&); the swap functions of the enclosing namespaces are hidden
\* and, a class member being found, not looked for through the arguments
swap_lookup == {[name |-> "placed::swap", arity |-> 1]}

\* void swap(placed& f) { swap(m_data, f.m_data); }: the body is a call of
\* swap with two arguments
placed_swap(x, f) ==
    IF \E c \in swap_lookup : c.arity = 2
    THEN [kind |-> "swapped", a |-> [x EXCEPT !.m_data = f.m_data],
                              b |-> [f EXCEPT !.m_data = x.m_data]]
    ELSE Rejected

\* placed::serialize(S& s) const: s & m_data
placed_serialize(x, st) == option_serialize(x.m_data, st)

\* placed::serialize(S& s): s & m_data
placed_deserialize(x, st) ==
    [o |-> [x EXCEPT !.m_data = option_deserialize(x.m_data, st).o],
     s |-> option_deserialize(x.m_data, st).s]

\* get_or(field_type const& f)
placed_get_or(x, f) == option_get_or(x.m_data, ConvertValue(f, x.T, x.q # 0))

\* the default 999 of the tests, as a value of type T
SentinelValue(T) == Local(T, ConvertNum("int", T, Sentinel))

(***************************************************************************)
(* Tier inference over the operands of one call.                           *)
(***************************************************************************)
\* A type is a record with its kind: "local" (a plain type), "field",
\* "placed" (with tier, p, q), "tuple" (with elems) or "array" (with elem),
\* and its qualifier qual, one of Quals; an operand of a call stands for its
\* unqualified type.
Quals == {"", "const", "&", "const&", "&&", "const&&"}

Qual(x) == IF "qual" \in DOMAIN x THEN x.qual ELSE ""

WithQual(x, q) == [k \in (DOMAIN x) \cup {"qual"} |-> IF k = "qual" THEN q ELSE x[k]]

\* the specialisations A const, A&, A&& take one qualifier off
StripQual(x) ==
    WithQual(x, IF Qual(x) \in {"const&", "const&&"} THEN "const" ELSE "")

\* a faulty variant: the scan stops at the first type that is not placed
RECURSIVE extract_tier_head(_)
extract_tier_head(xs) ==
    IF xs = <<>> THEN 0
    ELSE IF Qual(Head(xs)) # "" THEN extract_tier_head(<<StripQual(Head(xs))>> \o Tail(xs))
    ELSE IF Head(xs).kind = "placed" THEN Head(xs).tier
    ELSE IF Head(xs).kind = "tuple" THEN extract_tier_head(Head(xs).elems)
    ELSE IF Head(xs).kind = "array" THEN extract_tier_head(<<Head(xs).elem>>)
    ELSE 0

\* extract_tier<Ts...>: the tier of the first placed type, 0 if there is
\* none; qualifiers are taken off, tuple-like and array-like types expanded
RECURSIVE extract_tier(_)
extract_tier(xs) ==
    IF xs = <<>> THEN 0
    ELSE IF Qual(Head(xs)) # "" THEN extract_tier(<<StripQual(Head(xs))>> \o Tail(xs))
    ELSE IF Head(xs).kind = "placed" THEN Head(xs).tier
    ELSE IF Head(xs).kind = "tuple" THEN extract_tier(Head(xs).elems \o Tail(xs))
    ELSE IF Head(xs).kind = "array" THEN extract_tier(<<Head(xs).elem>> \o Tail(xs))
    ELSE extract_tier(Tail(xs))

\* is_placed<Ts...>
is_placed(xs) == extract_tier(xs) # 0

\* the value type a (placed) operand contributes
ValueType(x) == IF x.kind = "placed" THEN x.T ELSE x.val.ty

ValueTypes_of(xs) == [k \in DOMAIN xs |-> ValueType(xs[k])]

\* a faulty variant: the tiers are not compared
single_placed_any(tier, t, p, q) == [ok |-> TRUE, p_value |-> p, q_value |-> q]

\* single_placed<tier, t, T, p, q>: static_assert(tier == t)
single_placed(tier, t, p, q) == [ok |-> tier = t, p_value |-> p, q_value |-> q]

\* a faulty variant: existence as the union of the operands' bounds
mix_placed_union(tier, As) ==
    [ok      |-> \A k \in DOMAIN As : As[k].ok,
     p_value |-> tier_sup([k \in DOMAIN As |-> As[k].p_value]),
     q_value |-> tier_sup([k \in DOMAIN As |-> As[k].q_value])]

\* mix_placed<tier, U, A...>: p_value = tier_inf<A::p_value...>,
\* q_value = tier_sup<A::q_value...>
mix_placed(tier, As) ==
    [ok      |-> \A k \in DOMAIN As : As[k].ok,
     p_value |-> tier_inf([k \in DOMAIN As |-> As[k].p_value]),
     q_value |-> tier_sup([k \in DOMAIN As |-> As[k].q_value])]

\* common::has_template<field, A>: a field occurs in A
RECURSIVE has_template_field(_)
has_template_field(x) ==
    \/ x.kind = "field"
    \/ x.kind = "tuple" /\ \E k \in DOMAIN x.elems : has_template_field(x.elems[k])
    \/ x.kind = "array" /\ has_template_field(x.elem)

\* common::partial_decay<A>: lvalue references are kept, everything else decays
partial_decay(x) == WithQual(x, IF Qual(x) \in {"&", "const&"} THEN Qual(x) ELSE "")

\* A&, A const& for an element A of a tuple taken by reference (references
\* collapse: a reference stays what it is, an rvalue reference becomes an
\* lvalue one)
AddRef(x, r) ==
    WithQual(x, IF Qual(x) \in {"&", "const&"} THEN Qual(x)
                ELSE IF Qual(x) = "&&" THEN "&"
                ELSE IF Qual(x) = "const&&" THEN "const&"
                ELSE IF Qual(x) = "const" THEN "const&"
                ELSE r)

\* a faulty variant: an array-like type counts as a plain leaf
RECURSIVE to_placed_flat(_, _)
to_placed_flat(tier, x) ==
    LET A == partial_decay(x)
    IN  IF ~ (is_placed(<<A>>) \/ has_template_field(A)) \/ A.kind = "array"
        THEN [ok |-> TRUE, p_value |-> AllOnes, q_value |-> 0]
        ELSE IF A.kind = "placed" THEN single_placed(tier, A.tier, A.p, A.q)
        ELSE IF A.kind = "field" THEN single_placed(tier, tier, AllOnes, AllOnes)
        ELSE mix_placed(tier, [k \in DOMAIN A.elems |->
                 to_placed_flat(tier, IF Qual(A) = "" THEN A.elems[k] ELSE AddRef(A.elems[k], Qual(A)))])

\* to_placed<tier, A> = details::to_placed<tier, partial_decay<A>>: the base
\* case if neither a placed nor a field occurs in A, single_placed for a
\* placed or a field, mix_placed over the elements of a tuple-like type, the
\* element's bounds for an array-like type
RECURSIVE to_placed(_, _)
to_placed(tier, x) ==
    LET A == partial_decay(x)
    IN  IF ~ (is_placed(<<A>>) \/ has_template_field(A))
        THEN [ok |-> TRUE, p_value |-> AllOnes, q_value |-> 0]
        ELSE IF A.kind = "placed" THEN single_placed(tier, A.tier, A.p, A.q)
        ELSE IF A.kind = "field" THEN single_placed(tier, tier, AllOnes, AllOnes)
        ELSE IF A.kind = "array"
             THEN to_placed(tier, IF Qual(A) = "" THEN A.elem ELSE WithQual(A.elem, ""))
        ELSE mix_placed(tier, [k \in DOMAIN A.elems |->
                 to_placed(tier, IF Qual(A) = "" THEN A.elems[k] ELSE AddRef(A.elems[k], Qual(A)))])

\* the placed types that occur in a type
RECURSIVE placed_in(_)
placed_in(x) ==
    IF x.kind = "placed" THEN {x}
    ELSE IF x.kind = "tuple" THEN UNION {placed_in(x.elems[k]) : k \in DOMAIN x.elems}
    ELSE IF x.kind = "array" THEN placed_in(x.elem)
    ELSE {}

\* a faulty variant: any tier but 0 is accepted
placed_static_assert_nonzero(tier, T) ==
    /\ tier # 0
    /\ ~ has_template_field(T)
    /\ ~ is_placed(<<T>>)

\* the static_asserts of class placed: the tier is not 0 and has one bit,
\* T holds no field and no placed
placed_static_assert(tier, T) ==
    /\ tier # 0 /\ BitAnd(tier, tier - 1) = 0
    /\ ~ has_template_field(T)
    /\ ~ is_placed(<<T>>)

\* placed<tier, T, p, q> is instantiated: its static_asserts hold, and those
\* of the placed types T is made of, which its member m_data instantiates
placed_instantiate(tier, T, p, q) ==
    IF /\ placed_static_assert(tier, T)
       /\ \A e \in placed_in(T) : placed_static_assert(e.tier, [kind |-> "local"])
    THEN [kind |-> "class", tier |-> tier, T |-> T, p |-> p, q |-> q]
    ELSE Rejected

\* to_placed<tier, tuple<Ts const&...>>
to_placed_tuple(tier, xs) == mix_placed(tier, [k \in DOMAIN xs |-> to_placed(tier, xs[k])])

(***************************************************************************)
(* gps_trace (lib/gps/gps_trace.hpp).  A file is what opening and parsing  *)
(* it gives: whether it opens, whether rapidxml parses it, whether it has  *)
(* a gpx root and a trk child, and the trkpt nodes of the trkseg children  *)
(* of trk in document order, each with the strings of its lat and lon      *)
(* attributes.                                                             *)
(***************************************************************************)
\* the attribute is missing: first_attribute returns a null pointer
NoAttr == "none"

\* std::stod(str): the number a leading numeric prefix denotes, whatever
\* follows it; std::invalid_argument if there is none
stod(str) ==
    CASE str = "1.5" -> [thrown |-> FALSE, val |-> 3]
      [] str = "2x"  -> [thrown |-> FALSE, val |-> 4]
      [] OTHER       -> [thrown |-> TRUE]

\* the two loops over trkseg and trkpt from the point pts[1] on: the points
\* with both attributes are converted and pushed; an exception leaves the
\* loops with what was pushed
RECURSIVE load_points(_, _)
load_points(trk, pts) ==
    IF pts = <<>> THEN [track |-> trk, thrown |-> FALSE]
    ELSE IF Head(pts).lat # NoAttr /\ Head(pts).lon # NoAttr
    THEN IF stod(Head(pts).lat).thrown \/ stod(Head(pts).lon).thrown
         THEN [track |-> trk, thrown |-> TRUE]
         ELSE load_points(Append(trk, [lat |-> stod(Head(pts).lat).val,
                                       lon |-> stod(Head(pts).lon).val]), Tail(pts))
    ELSE load_points(trk, Tail(pts))

\* bool load_gpx_file(const std::string& src) on an object whose track is
\* trk: the value returned and the track left
load_gpx_file(trk, file) ==
    IF ~ file.opens THEN [ret |-> FALSE, track |-> trk]
    ELSE IF ~ file.parses THEN [ret |-> FALSE, track |-> trk]
    ELSE IF ~ file.gpx THEN [ret |-> FALSE, track |-> trk]
    ELSE IF ~ file.trk THEN [ret |-> FALSE, track |-> trk]
    ELSE IF load_points(trk, file.pts).thrown
         THEN [ret |-> FALSE, track |-> load_points(trk, file.pts).track]
    ELSE [ret |-> load_points(trk, file.pts).track # <<>>,
          track |-> load_points(trk, file.pts).track]

\* gps_trace(const std::string& src_gpx_file): the track is empty, and
\* load_gpx_file is called, its result only printed
gps_trace(file) == load_gpx_file(<<>>, file)

(***************************************************************************)
(* PMAIN() with FCPP_TIERS == FCPP_TIERS_VARIABLE (lib/beautify.hpp).      *)
(***************************************************************************)
\* the number of tiers body_rec tries
FCPP_TIERS_MAX == TierBits

\* what the names used in body_rec<t, node_t>(node_t& node) denote: the
\* template parameter t; main has the members operator(), body_rec and body
\* and no tier, and lib/ declares tier at no namespace scope
body_rec_scope(t) == [t |-> t]

\* template <tier_t t, typename node_t> void main::body_rec(node_t& node):
\*   if (node.storage(FCPP_TIER_TAG{}) == (1<<t)) body<(1<<t)>(node);
\*   else if (tier+1 < FCPP_TIERS_MAX) body_rec<tier+1>(node);
\* the result is the sequence of the tiers body was run with
RECURSIVE body_rec(_, _)
body_rec(t, stored) ==
    LET scope == body_rec_scope(t)
    IN  IF ~ ({"t", "tier"} \subseteq DOMAIN scope) THEN Rejected
        ELSE IF stored = Pow2(scope.t) THEN [kind |-> "main", body |-> <<Pow2(scope.t)>>]
        ELSE IF scope.tier + 1 < FCPP_TIERS_MAX THEN body_rec(scope.tier + 1, stored)
        ELSE [kind |-> "main", body |-> <<>>]

\* main::operator()(node_t& node, times_t): body_rec<0>(node)
pmain(stored) == body_rec(0, stored)

(***************************************************************************)
(* Conditional evaluation.  The outcome of a call is its value, the number *)
(* of evaluations of the user operator, and the placed operands read       *)
(* through the unchecked accessor.                                         *)
(***************************************************************************)
Call(val, n, rd) == [val |-> val, nops |-> n, reads |-> rd]

\* place_data(type_sequence<placed<...>>, f): the implicit conversion of f,
\* through placed(T const&) or the private placed(field<T> const&)
place_data(P, f) == IF f.fld THEN placed_from_field(P, f) ELSE placed_from_value(P, f)

\* a faulty variant: the value-initialised T for every placed operand
maybe_get_data_default(x) ==
    IF x.kind = "placed" THEN DefaultValue(x.T, x.q # 0) ELSE x.val

\* maybe_get_data(x): x itself, or x.m_data.front() of a placed x
maybe_get_data(x) == IF x.kind = "placed" THEN option_front(x.m_data) ELSE x.val

GetData(xs) == [k \in DOMAIN xs |-> maybe_get_data(xs[k])]

PlacedArgs(xs) == {k \in DOMAIN xs : xs[k].kind = "placed"}

\* the lambdas handed to maybe_perform: map_hood(op, ys...),
\* fold_hood(op, x, b, dom, i)
MapLambda(f) == [k |-> "map", f |-> f]

FoldLambda(f, b, dom, i) == [k |-> "fold", f |-> f, b |-> b, dom |-> dom, i |-> i]

InclFoldLambda(f, dom) == [k |-> "foldi", f |-> f, dom |-> dom]

\* the folds of the model use operators defined on all numbers
InvokeDefined(lam, ys) == lam.k = "map" => MapDefined(lam.f, ys)

\* self(y, i) of lib/data/field.hpp: the value of y for device i
SelfLambda(i) == [k |-> "self", i |-> i]

field_self(y, i) == [ty |-> y.ty, fld |-> FALSE, v |-> Const(y.v[i])]

Invoke(lam, ys) ==
    IF lam.k = "map" THEN map_hood(lam.f, ys)
    ELSE IF lam.k = "fold" THEN field_fold_hood_excl(lam.f, ys[1], lam.b, lam.dom, lam.i)
    ELSE IF lam.k = "self" THEN field_self(ys[1], lam.i)
    ELSE field_fold_hood(lam.f, ys[1], lam.dom)

\* the evaluations of the user operator one invocation of the lambda makes
InvokeOps(lam, ys) ==
    IF lam.k = "map" THEN (IF \E k \in DOMAIN ys : ys[k].fld THEN Cardinality(Devs) ELSE 1)
    ELSE IF lam.k = "fold" THEN Cardinality(lam.dom \ {lam.i})
    ELSE IF lam.k = "self" THEN 0
    ELSE Cardinality(lam.dom) - 1

\* a faulty variant: the operator is evaluated whatever the tier
maybe_perform_always(P, lam, xs) ==
    Call(place_data(P, Invoke(lam, GetData(xs))), InvokeOps(lam, GetData(xs)), PlacedArgs(xs))

\* a faulty variant: the true overload invokes the lambda a second time
maybe_perform_twice(P, lam, xs) ==
    IF BitAnd(P.tier, P.p) # 0
    THEN Call(place_data(P, Invoke(lam, GetData(xs))), 2 * InvokeOps(lam, GetData(xs)), PlacedArgs(xs))
    ELSE Call(Placed(P, option_value_init(option_enable(P), P.T, is_field_type(P))), 0, {})

\* maybe_perform(type_sequence<placed<tier,T,p,q>>, op, xs...): dispatch on
\* bool(tier & p); the empty overload returns {}
maybe_perform(P, lam, xs) ==
    IF BitAnd(P.tier, P.p) # 0
    THEN Call(place_data(P, Invoke(lam, GetData(xs))), InvokeOps(lam, GetData(xs)), PlacedArgs(xs))
    ELSE Call(Placed(P, option_value_init(option_enable(P), P.T, is_field_type(P))), 0, {})

\* the evaluation maybe_perform makes, if any, has defined behaviour
PerformDefined(P, lam, xs) == BitAnd(P.tier, P.p) # 0 => InvokeDefined(lam, GetData(xs))

(***************************************************************************)
(* pmap_hood, fold_hood, get_or and the overloaded operators.              *)
(***************************************************************************)
\* the result type of pmap_hood(op, xs...) on placed operands
pmap_type(f, xs) ==
    LET tier == extract_tier(xs)
        P == to_placed_tuple(tier, xs)
    IN  PlacedType(tier, OpType(f, ValueTypes_of(xs)), P.p_value, P.q_value)

\* pmap_hood(op, xs...): map_hood if no operand is placed, else maybe_perform
\* on placed<tier, local_result<F, Ss...>, P::p_value, P::q_value>
pmap_hood(f, xs) ==
    IF extract_tier(xs) = 0
    THEN Call(Plain(map_hood(f, GetData(xs))), InvokeOps(MapLambda(f), GetData(xs)), {})
    ELSE IF ~ to_placed_tuple(extract_tier(xs), xs).ok THEN Call(Rejected, 0, {})
    ELSE maybe_perform(pmap_type(f, xs), MapLambda(f), xs)

PMapDefined(f, xs) ==
    /\ OpCompiles(f, ValueTypes_of(xs))
    /\ IF extract_tier(xs) = 0 THEN MapDefined(f, GetData(xs))
       ELSE to_placed_tuple(extract_tier(xs), xs).ok
                => PerformDefined(pmap_type(f, xs), MapLambda(f), xs)

\* a faulty variant: the fold keeps the q-bound of its operand
fold_result_q(f, x, b) == PlacedType(x.tier, OpType(f, <<x.T, b.ty>>), x.p, x.q)

\* fold_result<tier, F, A, B, p> = placed<tier, result_of_t<F(A, B)>, p, 0>
fold_result(f, x, b) == PlacedType(x.tier, OpType(f, <<x.T, b.ty>>), x.p, 0)

\* a faulty variant: the fold excludes an identity no device has
fold_hood_self(f, x, b, dom, i) ==
    maybe_perform(fold_result(f, x, b), FoldLambda(f, b, dom, -1), <<x>>)

\* exclusive details::fold_hood(op, f, b, dom, i) on a placed f
fold_hood(f, x, b, dom, i) ==
    maybe_perform(fold_result(f, x, b), FoldLambda(f, b, dom, i), <<x>>)

\* inclusive details::fold_hood(op, f, dom) on a placed f
fold_hood_incl(f, x, dom) ==
    maybe_perform(PlacedType(x.tier, OpType(f, <<x.T, x.T>>), x.p, 0), InclFoldLambda(f, dom), <<x>>)

\* details::self(integer_sequence<tier>, x, i): maybe_perform on
\* L = placed<tier, decay_t<P::value_type>, P::p_value, 0> with
\* P = to_placed<tier, T>
self(tier, x, i) ==
    IF ~ to_placed_tuple(tier, <<x>>).ok THEN Call(Rejected, 0, {})
    ELSE maybe_perform(PlacedType(tier, ValueType(x), to_placed_tuple(tier, <<x>>).p_value, 0),
                       SelfLambda(i), <<x>>)

\* a faulty variant: the first operand is read whatever its bounds
details_get_or_first(R, fs, k) ==
    IF k > Len(fs) THEN Call(Placed(R, option_value_init(option_enable(R), R.T, is_field_type(R))), 0, {})
    ELSE Call(place_data(R, maybe_get_data(fs[k])), 0, {k})

\* a faulty variant: existence as the intersection of the operands' bounds
get_or_type_inf(fs) ==
    PlacedType(fs[1].tier, fs[1].T,
               tier_inf([k \in DOMAIN fs |-> fs[k].p]),
               tier_sup([k \in DOMAIN fs |-> fs[k].q]))

\* R = placed<tier, T, tier_sup<ps...>, tier_sup<qs...>> of get_or(fs...)
get_or_type(fs) ==
    PlacedType(fs[1].tier, fs[1].T,
               tier_sup([k \in DOMAIN fs |-> fs[k].p]),
               tier_sup([k \in DOMAIN fs |-> fs[k].q]))

\* a faulty variant: the last defined operand wins
RECURSIVE details_get_or_last(_, _, _)
details_get_or_last(R, fs, k) ==
    IF k > Len(fs) THEN Call(Placed(R, option_value_init(option_enable(R), R.T, is_field_type(R))), 0, {})
    ELSE LET rest == details_get_or_last(R, fs, k + 1)
         IN  IF rest.reads # {} \/ BitAnd(fs[k].tier, fs[k].p) = 0 THEN rest
             ELSE Call(place_data(R, maybe_get_data(fs[k])), 0, {k})

\* details::get_or(type_sequence<R>, fs...) from operand k on: the first
\* operand with bool(tier & p) is placed into R; R{} if there is none
RECURSIVE details_get_or(_, _, _)
details_get_or(R, fs, k) ==
    IF k > Len(fs) THEN Call(Placed(R, option_value_init(option_enable(R), R.T, is_field_type(R))), 0, {})
    ELSE IF BitAnd(fs[k].tier, fs[k].p) # 0
         THEN Call(place_data(R, maybe_get_data(fs[k])), 0, {k})
         ELSE details_get_or(R, fs, k + 1)

\* get_or(placed<tier,T,ps,qs> const&... fs): one tier and one T for all
get_or(fs) ==
    IF \A k \in DOMAIN fs : fs[k].kind = "placed" /\ fs[k].tier = fs[1].tier /\ fs[k].T = fs[1].T
    THEN details_get_or(get_or_type(fs), fs, 1)
    ELSE Call(Rejected, 0, {})

\* a faulty variant: the binary operators with their operands exchanged
operator_applied(f, xs) ==
    IF extract_tier(xs) # 0
    THEN pmap_hood(f, IF Len(xs) = 2 THEN <<xs[2], xs[1]>> ELSE xs)
    ELSE Call(NotPlaced, 0, {})

\* _DEF_UOP(op), _DEF_BOP(op): enabled if extract_tier<A>, extract_tier<A, B>
\* is not 0, and then pmap_hood with the lambda "op a", "a op b"
operator(f, xs) ==
    IF extract_tier(xs) # 0 THEN pmap_hood(f, xs) ELSE Call(NotPlaced, 0, {})

(***************************************************************************)
(* The inputs of the calls.                                                *)
(***************************************************************************)
\* the tiers the calls are evaluated at: the lowest and the highest
EvalTiers == {1, Pow2(TierBits - 1)}

\* the visibility bounds at tier t: nowhere, here only, elsewhere only,
\* everywhere
QMasks(t) == {0, t, AllOnes - t, AllOnes}

PlacedTypes(t) == {PlacedType(t, T, p, q) : T \in ValueTypes, p \in Masks, q \in QMasks(t)}

AllPlacedTypes == UNION {PlacedTypes(t) : t \in Tiers}

\* the types of the conversions, and their objects
ConvPlacedTypes(t) == {PlacedType(t, T, p, q) : T \in ConvTypes, p \in Masks, q \in QMasks(t)}

\* the objects of one placed type: a value of field_type where it is stored
PlacedValuesOf(P) ==
    IF option_enable(P) = 0 THEN {Placed(P, option_false(P.T, is_field_type(P)))}
    ELSE {Placed(P, Option(1, P.T, is_field_type(P), TRUE, v)) : v \in ValuesOf(P.T, is_field_type(P))}

PlacedValues(t) == UNION {PlacedValuesOf(P) : P \in PlacedTypes(t)}

ConvPlacedValues(t) == UNION {PlacedValuesOf(P) : P \in ConvPlacedTypes(t)}

\* a tier other than t, if there is one
OtherTier(t) == IF t = 1 THEN Pow2(TierBits - 1) ELSE 1

PlainValues == UNION {{Plain(v) : v \in LocalValues(T) \cup FieldValues(T)} : T \in ValueTypes}

\* the operands of an expression evaluated at tier t
Operands(t) == PlacedValues(t) \cup PlainValues

\* a sample of the bounds at tier t: everywhere and local, here only and
\* shared, elsewhere only, nowhere
SampleBounds(t) == {<<AllOnes, 0>>, <<t, t>>, <<AllOnes - t, AllOnes>>, <<0, 0>>}

SampleOperands(t) ==
    PlainValues \cup
    UNION {PlacedValuesOf(PlacedType(t, T, b[1], b[2])) : T \in ValueTypes, b \in SampleBounds(t)}

\* the k-th operand of a call of three: an int of value k - 1, plain, a field,
\* or placed with any existence bound
ThirdOperands(t, k) ==
    {Plain(Local("int", 2 * (k - 1))), Plain(Field("int", Const(2 * (k - 1))))} \cup
    UNION {PlacedValuesOf(PlacedType(t, "int", p, q)) \cap
              {Placed(PlacedType(t, "int", p, q), o) :
                  o \in {option_false("int", q # 0), option_true("int", q # 0, Local("int", 2 * (k - 1)))}}
           : p \in Masks, q \in {0, AllOnes}}

Domains == (SUBSET Devs) \ {{}}

\* the types of the tests of extract_tier, is_placed and to_placed
TLocal == [kind |-> "local", qual |-> ""]

TField == [kind |-> "field", qual |-> ""]

TPlaced(t, p, q) == [kind |-> "placed", tier |-> t, p |-> p, q |-> q, qual |-> ""]

TTuple(es) == [kind |-> "tuple", elems |-> es, qual |-> ""]

TArray(e) == [kind |-> "array", elem |-> e, qual |-> ""]

\* the leaves: a plain type, a field, a placed of tier t with each of the
\* sample bounds, a placed of another tier
LeafTypes(t) ==
    {TLocal, TField, TPlaced(OtherTier(t), AllOnes, 0)}
    \cup {TPlaced(t, b[1], b[2]) : b \in SampleBounds(t)}

\* a type one level deeper than x: arrays and pairs of x with a plain type, a
\* field or a placed, under each qualifier
Wrap(t, x) ==
    {TArray(x), TArray(WithQual(x, "&")),
     TTuple(<<WithQual(x, "const"), TLocal>>),
     TTuple(<<TField, WithQual(x, "&&")>>),
     TTuple(<<WithQual(x, "const&"), TPlaced(t, t, 0)>>),
     TTuple(<<TPlaced(OtherTier(t), AllOnes, 0), WithQual(x, "const&&")>>),
     WithQual(TTuple(<<x, TLocal>>), "const&")}

RECURSIVE NestedTypes(_, _)
NestedTypes(t, d) ==
    IF d = 0 THEN LeafTypes(t)
    ELSE NestedTypes(t, d - 1) \cup UNION {Wrap(t, x) : x \in NestedTypes(t, d - 1)}

\* the types handed to to_placed and extract_tier, under a qualifier
TestTypes(t) == {WithQual(x, q) : x \in NestedTypes(t, MaxDepth), q \in {"", "const&", "&&"}}

\* the parameter T of an instantiation: plain, a field, or made of placed
\* types of any tier, atomic or not
ParamTypes ==
    LET leaves == {TLocal, TField} \cup {TPlaced(m, AllOnes, 0) : m \in Masks}
    IN  leaves \cup {TArray(x) : x \in leaves} \cup {TTuple(<<x, TLocal>>) : x \in leaves}

\* get_or(999) on the result, as the tests observe it
Observe(r) == IF r.kind = "placed" THEN placed_get_or(r, SentinelValue(r.T)) ELSE NoData

(***************************************************************************)
(* The state machine: one call at a time, on fresh operands.               *)
(***************************************************************************)
Init ==
    /\ pc = "idle"
    /\ fn = [name |-> "none"]
    /\ args = <<>>
    /\ res = NotPlaced
    /\ nops = 0
    /\ reads = {}
    /\ got = NoData
    /\ opt = option_false("int", FALSE)
    /\ other = option_false("int", FALSE)
    /\ stream = <<>>
    /\ last = [name |-> "none"]
    /\ GpsIdle
    /\ NetIdle

Done(name, as, c) ==
    /\ pc' = "done"
    /\ fn' = name
    /\ args' = as
    /\ res' = c.val
    /\ nops' = c.nops
    /\ reads' = c.reads
    /\ got' = Observe(c.val)
    /\ UNCHANGED <<ovars, gvars, nvars>>

\* placed<tier,T,p,q> x;
DefaultConstruct ==
    /\ pc = "idle"
    /\ \E P \in AllPlacedTypes : \E g \in ValuesOf(P.T, is_field_type(P)) :
           Done([name |-> "default", P |-> P], <<>>, Call(placed_default(P, g), 0, {}))

\* placed<tier,T,p,q> x(d);
Construct ==
    /\ pc = "idle"
    /\ \E P \in AllPlacedTypes : \E d \in LocalValues(P.T) :
           Done([name |-> "construct", P |-> P], <<Plain(d)>>, Call(placed_from_value(P, d), 0, {}))

\* details::make_placed<tier,T,p,q>(ids, vals)
MakePlaced ==
    /\ pc = "idle"
    /\ \E P \in AllPlacedTypes : \E f \in FieldValues(P.T) :
           Done([name |-> "make_placed", P |-> P], <<Plain(f)>>, Call(place_data(P, f), 0, {}))

\* placed<tier,T,p,q> x(f); for a placed f of any type
ConvertConstruct ==
    /\ pc = "idle"
    /\ \E t \in EvalTiers : \E f \in ConvPlacedValues(t) :
           \E P \in ConvPlacedTypes(t) \cup {PlacedType(OtherTier(t), f.T, f.p, f.q)} :
               Done([name |-> "convert", P |-> P], <<f>>, Call(placed_convert(P, f), 0, {}))

\* x = f; for a placed x holding the least value of its type and a placed f
ConvertAssign ==
    /\ pc = "idle"
    /\ \E t \in EvalTiers : \E P \in ConvPlacedTypes(t) : \E f \in ConvPlacedValues(t) :
           LET x == placed_from_value(P, Local(P.T, CHOOSE n \in Nums(P.T) : \A m \in Nums(P.T) : n <= m))
           IN  Done([name |-> "assign", P |-> P], <<x, f>>, Call(placed_assign(x, f), 0, {}))

UserOps == {Lambda(1, "-"), Lambda(2, "+")}

\* pmap_hood(op, x) and pmap_hood(op, x, y)
PMapHood ==
    /\ pc = "idle"
    /\ \E t \in EvalTiers : \E f \in UserOps :
           \E xs \in IF f.ar = 1 THEN {<<x>> : x \in Operands(t)}
                     ELSE {<<x, y>> : x \in Operands(t), y \in Operands(t)} :
               /\ PMapDefined(f, xs)
               /\ Done([name |-> "pmap_hood", f |-> f], xs, pmap_hood(f, xs))

\* pmap_hood(op, x, y, z)
PMapHood3 ==
    /\ pc = "idle"
    /\ \E t \in EvalTiers :
           \E x \in ThirdOperands(t, 1) : \E y \in ThirdOperands(t, 2) : \E z \in ThirdOperands(t, 3) :
               /\ PMapDefined(Lambda(3, "sum3"), <<x, y, z>>)
               /\ Done([name |-> "pmap_hood", f |-> Lambda(3, "sum3")], <<x, y, z>>,
                       pmap_hood(Lambda(3, "sum3"), <<x, y, z>>))

\* details::fold_hood(op, f, b, dom, i), i a device of dom or another one
FoldHood ==
    /\ pc = "idle"
    /\ \E t \in EvalTiers : \E x \in PlacedValues(t) : \E b \in LocalValues("int") :
           \E dom \in Domains : \E i \in 0..(MaxDev + 1) :
               Done([name |-> "fold_hood", f |-> Lambda(2, "+"), b |-> b, dom |-> dom, i |-> i],
                    <<x>>, fold_hood(Lambda(2, "+"), x, b, dom, i))

\* details::fold_hood(op, f, dom)
FoldHoodIncl ==
    /\ pc = "idle"
    /\ \E t \in EvalTiers : \E x \in PlacedValues(t) : \E dom \in Domains :
           Done([name |-> "fold_hood_incl", f |-> Lambda(2, "+"), dom |-> dom],
                <<x>>, fold_hood_incl(Lambda(2, "+"), x, dom))

\* get_or(f1) and get_or(f1, f2)
GetOr ==
    /\ pc = "idle"
    /\ \E t \in EvalTiers : \E T \in ValueTypes :
           \E fs \in {<<x>> : x \in {v \in PlacedValues(t) : v.T = T}} \cup
                     {<<x, y>> : x \in {v \in PlacedValues(t) : v.T = T},
                                 y \in {v \in PlacedValues(t) : v.T = T}} :
               Done([name |-> "get_or"], fs, get_or(fs))

\* get_or(f1, f2, f3)
GetOr3 ==
    /\ pc = "idle"
    /\ \E t \in EvalTiers :
           \E x \in ThirdOperands(t, 1) : \E y \in ThirdOperands(t, 2) : \E z \in ThirdOperands(t, 3) :
               /\ \A o \in {x, y, z} : o.kind = "placed"
               /\ Done([name |-> "get_or"], <<x, y, z>>, get_or(<<x, y, z>>))

\* op x and x op y of _DEF_UOP, _DEF_BOP
Operator ==
    /\ pc = "idle"
    /\ \E t \in EvalTiers : \E f \in {Lambda(1, o) : o \in UnOps} \cup {Lambda(2, o) : o \in BinOps} :
           \E xs \in IF f.ar = 1 THEN {<<x>> : x \in SampleOperands(t)}
                     ELSE {<<x, y>> : x \in SampleOperands(t), y \in SampleOperands(t)} :
               /\ PMapDefined(f, xs)
               /\ Done([name |-> "operator", f |-> f], xs, operator(f, xs))

\* extract_tier<Ts...> and is_placed<Ts...> on a list of one or two types
ExtractTier ==
    /\ pc = "idle"
    /\ \E t \in EvalTiers : \E x \in TestTypes(t) : \E xs \in {<<x>>, <<TLocal, x>>} :
           Done([name |-> "extract_tier", types |-> xs], <<>>,
                Call([kind |-> "tier", tier |-> extract_tier(xs), is_placed |-> is_placed(xs)], 0, {}))

\* typename to_placed<tier, A>::type
ToPlaced ==
    /\ pc = "idle"
    /\ \E t \in EvalTiers : \E x \in TestTypes(t) :
           LET P == to_placed(t, x)
           IN  Done([name |-> "to_placed", tier |-> t, type |-> x], <<>>,
                    Call(IF P.ok THEN [kind |-> "bounds", tier |-> t, p |-> P.p_value, q |-> P.q_value]
                         ELSE Rejected, 0, {}))

\* pmap_hood(op, x, y) and x op y on operands of two tiers
MixedTiers ==
    /\ pc = "idle"
    /\ \E t \in EvalTiers : \E c \in {"pmap_hood", "operator"} :
           \E x \in SampleOperands(t) \ PlainValues : \E y \in SampleOperands(OtherTier(t)) \ PlainValues :
               \E xs \in {<<x, y>>, <<y, x>>} :
                   /\ PMapDefined(Lambda(2, "+"), xs)
                   /\ Done([name |-> "mixed", call |-> c, f |-> Lambda(2, "+")], xs,
                           IF c = "operator" THEN operator(Lambda(2, "+"), xs)
                           ELSE pmap_hood(Lambda(2, "+"), xs))

\* a.swap(b) on two placed values of one type
Swap ==
    /\ pc = "idle"
    /\ \E t \in EvalTiers : \E a \in SampleOperands(t) \ PlainValues :
           \E b \in PlacedValuesOf(TypeOf(a)) :
               Done([name |-> "swap"], <<a, b>>, Call(placed_swap(a, b), 0, {}))

\* main()(node, t) of a PMAIN() program on a node whose storage holds stored
\* under the tier tag
PMain ==
    /\ pc = "idle"
    /\ \E stored \in Masks :
           Done([name |-> "PMAIN", stored |-> stored], <<>>, Call(pmain(stored), 0, {}))

\* is >> g; after os << f; for placed values f and g of one type
Deserialize ==
    /\ pc = "idle"
    /\ \E t \in EvalTiers : \E f \in SampleOperands(t) \ PlainValues :
           \E g \in PlacedValuesOf(TypeOf(f)) :
               Done([name |-> "deserialize"], <<g, f>>,
                    Call(placed_deserialize(g, placed_serialize(f, <<>>)).o, 0, {}))

\* details::self(t, x, i) on a placed or plain x
Self ==
    /\ pc = "idle"
    /\ \E t \in EvalTiers : \E x \in SampleOperands(t) : \E i \in Devs :
           Done([name |-> "self", tier |-> t, i |-> i], <<x>>, self(t, x, i))

\* an object of class placed<tier, T, p, q> is declared
Instantiate ==
    /\ pc = "idle"
    /\ \E tier \in Masks : \E T \in ParamTypes : \E b \in SampleBounds(1) :
           Done([name |-> "instantiate", tier |-> tier, T |-> T], <<>>,
                Call(placed_instantiate(tier, T, b[1], b[2]), 0, {}))

\* the result goes out of scope
Reset ==
    /\ pc = "done"
    /\ pc' = "idle"
    /\ fn' = [name |-> "none"]
    /\ args' = <<>>
    /\ res' = NotPlaced
    /\ nops' = 0
    /\ reads' = {}
    /\ got' = NoData
    /\ UNCHANGED <<ovars, gvars, nvars>>

Next ==
    \/ DefaultConstruct
    \/ Construct
    \/ MakePlaced
    \/ ConvertConstruct
    \/ ConvertAssign
    \/ PMapHood
    \/ PMapHood3
    \/ FoldHood
    \/ FoldHoodIncl
    \/ GetOr
    \/ GetOr3
    \/ Operator
    \/ ExtractTier
    \/ ToPlaced
    \/ MixedTiers
    \/ Instantiate
    \/ Swap
    \/ PMain
    \/ Deserialize
    \/ Self
    \/ Reset

Spec == Init /\ [][Next]_vars

(***************************************************************************)
(* The state machine of one option<T, enable> object: the member functions *)
(* of lib/common/option.hpp called in any order on opt, with a second      *)
(* object other of the same type.                                          *)
(***************************************************************************)
\* the modes: never (false), always (true), run time (2)
Modes == {0, 1, 2}

\* the values of T: those of the tests, and T{}
OptionData(ty) == LocalValues(ty) \cup {DefaultValue(ty, FALSE)}

\* the arguments of a constructor, of emplace, of an assignment: a value of
\* T or of a type that converts to T
OptionArgs == UNION {LocalValues(A) : A \in ValueTypes}

\* the objects of type option<T, enable>
OptionValues(enable, ty) ==
    IF enable = 0 THEN {option_false(ty, FALSE)}
    ELSE IF enable = 1 THEN {Option(1, ty, FALSE, TRUE, v) : v \in OptionData(ty)}
    ELSE {Option(2, ty, FALSE, b, v) : b \in BOOLEAN, v \in OptionData(ty)}

OptionInit ==
    /\ pc = "idle"
    /\ fn = [name |-> "none"]
    /\ args = <<>>
    /\ res = NotPlaced
    /\ nops = 0
    /\ reads = {}
    /\ got = NoData
    /\ \E e \in Modes : \E ty \in ValueTypes : \E g, h \in OptionData(ty) :
           /\ opt = option_default(e, ty, FALSE, g)
           /\ other = option_default(e, ty, FALSE, h)
    /\ stream = <<>>
    /\ last = [name |-> "option"]
    /\ GpsIdle
    /\ NetIdle

\* a member function returns: c is the call and what it returned, opt is o
\* and other is o2
Returns(c, o, o2) ==
    /\ last' = c
    /\ opt' = o
    /\ other' = o2
    /\ stream' = <<>>

\* opt = option<T, enable>();
OptionDefault ==
    /\ \E g \in OptionData(opt.ty) :
           Returns([name |-> "default"], option_default(opt.enable, opt.ty, opt.fld, g), other)
    /\ UNCHANGED <<vars, gvars, nvars>>

\* opt = option<T, enable>(v);  opt = v;
OptionConstruct ==
    /\ \E v \in OptionArgs :
           Returns([name |-> "construct", arg |-> v],
                   option_forward(opt.enable, opt.ty, opt.fld, v), other)
    /\ UNCHANGED <<vars, gvars, nvars>>

\* option<T, enable> other(opt);
OptionCopy ==
    /\ Returns([name |-> "copy"], opt, option_copy(opt))
    /\ UNCHANGED <<vars, gvars, nvars>>

\* option<T, enable> other(std::move(tmp)); for a copy tmp of opt
OptionMove ==
    /\ Returns([name |-> "move"], opt, option_move(option_copy(opt)))
    /\ UNCHANGED <<vars, gvars, nvars>>

\* opt = other;
OptionAssign ==
    /\ Returns([name |-> "assign"], option_copy(other), other)
    /\ UNCHANGED <<vars, gvars, nvars>>

\* opt = option<T, enable>(o); for an option o of another type
OptionConvert ==
    /\ \E e \in Modes : \E ty \in ValueTypes : \E o \in OptionValues(e, ty) :
           /\ <<e, ty>> # <<opt.enable, opt.ty>>
           /\ option_convertible(opt.enable, opt.ty, opt.fld, o)
           /\ Returns([name |-> "convert", arg |-> o],
                      option_converted(opt.enable, opt.ty, opt.fld, o), other)
    /\ UNCHANGED <<vars, gvars, nvars>>

\* opt.front() = v;
OptionWriteFront ==
    /\ opt.enable # 0
    /\ \E v \in LocalValues(opt.ty) :
           Returns([name |-> "front=", arg |-> v], option_write_front(opt, v), other)
    /\ UNCHANGED <<vars, gvars, nvars>>

\* opt.emplace(v);
OptionEmplace ==
    /\ opt.enable = 2
    /\ \E v \in LocalValues(opt.ty) :
           Returns([name |-> "emplace", arg |-> v, pre |-> opt], option_emplace(opt, v), other)
    /\ UNCHANGED <<vars, gvars, nvars>>

\* opt.clear();
OptionClear ==
    /\ opt.enable = 2
    /\ Returns([name |-> "clear", pre |-> opt], option_clear(opt), other)
    /\ UNCHANGED <<vars, gvars, nvars>>

\* opt.get_or(d), twice
OptionGetOr ==
    /\ \E d \in LocalValues(opt.ty) :
           Returns([name |-> "get_or", arg |-> d, pre |-> opt,
                    ret |-> option_get_or(opt, d), again |-> option_get_or(opt, d)], opt, other)
    /\ UNCHANGED <<vars, gvars, nvars>>

\* opt == other, other == opt, opt == opt
OptionEquals ==
    /\ Returns([name |-> "==", ret |-> option_eq(opt, other), rev |-> option_eq(other, opt),
                self |-> option_eq(opt, opt)], opt, other)
    /\ UNCHANGED <<vars, gvars, nvars>>

\* opt.size(), opt.empty(), opt.front(), opt.back(), T(opt),
\* for (auto v : opt)
OptionIterate ==
    /\ Returns([name |-> "iterate", size |-> option_size(opt), empty |-> option_empty(opt),
                front |-> option_front(opt), back |-> option_back(opt),
                value |-> option_to_T(opt),
                visited |-> option_iterate(opt)], opt, other)
    /\ UNCHANGED <<vars, gvars, nvars>>

\* os << opt;
OptionSerialize ==
    /\ last' = [name |-> "serialize", src |-> opt]
    /\ stream' = option_serialize(opt, <<>>)
    /\ UNCHANGED <<opt, other>>
    /\ UNCHANGED <<vars, gvars, nvars>>

\* is >> other; on the stream just written
OptionDeserialize ==
    /\ last.name = "serialize"
    /\ last' = [name |-> "deserialize", src |-> last.src, pre |-> other]
    /\ other' = option_deserialize(other, stream).o
    /\ stream' = option_deserialize(other, stream).s
    /\ UNCHANGED opt
    /\ UNCHANGED <<vars, gvars, nvars>>

\* os << opt << other;
OptionSerializeTwo ==
    /\ last' = [name |-> "serialize_two", src |-> opt, src2 |-> other]
    /\ stream' = option_serialize(other, option_serialize(opt, <<>>))
    /\ UNCHANGED <<opt, other>>
    /\ UNCHANGED <<vars, gvars, nvars>>

\* is >> other; on the stream the two objects were written to
OptionDeserializeFirst ==
    /\ last.name = "serialize_two"
    /\ last' = [name |-> "deserialize_first", src |-> last.src, src2 |-> last.src2,
                 pre |-> other, written |-> stream]
    /\ other' = option_deserialize(other, stream).o
    /\ stream' = option_deserialize(other, stream).s
    /\ UNCHANGED opt
    /\ UNCHANGED <<vars, gvars, nvars>>

\* os << f; for a placed value f
PlacedSerialize ==
    /\ \E t \in EvalTiers : \E f \in SampleOperands(t) \ PlainValues :
           /\ last' = [name |-> "placed_serialize", src |-> f]
           /\ stream' = placed_serialize(f, <<>>)
    /\ UNCHANGED <<opt, other>>
    /\ UNCHANGED <<vars, gvars, nvars>>

\* is >> g; for a placed value g of the type of f, on the stream just written
PlacedDeserialize ==
    /\ last.name = "placed_serialize"
    /\ \E g \in PlacedValuesOf(TypeOf(last.src)) :
           /\ last' = [name |-> "placed_deserialize", src |-> last.src, pre |-> g,
                        dst |-> placed_deserialize(g, stream).o]
           /\ stream' = placed_deserialize(g, stream).s
    /\ UNCHANGED <<opt, other>>
    /\ UNCHANGED <<vars, gvars, nvars>>

OptionNext ==
    \/ OptionDefault
    \/ OptionConstruct
    \/ OptionCopy
    \/ OptionMove
    \/ OptionAssign
    \/ OptionConvert
    \/ OptionWriteFront
    \/ OptionEmplace
    \/ OptionClear
    \/ OptionGetOr
    \/ OptionEquals
    \/ OptionIterate
    \/ OptionSerialize
    \/ OptionDeserialize
    \/ OptionSerializeTwo
    \/ OptionDeserializeFirst
    \/ PlacedSerialize
    \/ PlacedDeserialize

OptionSpec == OptionInit /\ [][OptionNext]_ovars

(***************************************************************************)
(* The state machine of one gps_trace object: constructed from a file,     *)
(* then load_gpx_file called on it with any file, any number of times      *)
(* while the track has room.                                               *)
(***************************************************************************)
\* the trkpt nodes of a file are at most MaxPts
MaxPts == 2
\* the track holds at most MaxTrack points
MaxTrack == 3

\* the strings of a lat and of a lon attribute
LatStrings == {NoAttr, "2x", "x"}

LonStrings == {NoAttr, "1.5", "x"}

TrkPts == [lat : LatStrings, lon : LonStrings]

RECURSIVE SeqsUpTo(_, _)
SeqsUpTo(S, n) ==
    IF n = 0 THEN {<<>>}
    ELSE SeqsUpTo(S, n - 1) \cup {Append(q, e) : q \in SeqsUpTo(S, n - 1), e \in S}

File(opens, parses, gpx, trk, pts) ==
    [opens |-> opens, parses |-> parses, gpx |-> gpx, trk |-> trk, pts |-> pts]

\* a file that does not open, one rapidxml rejects, one with another root,
\* one with no trk, and the files with a trk of up to MaxPts points
Files ==
    {File(FALSE, FALSE, FALSE, FALSE, <<>>), File(TRUE, FALSE, FALSE, FALSE, <<>>),
     File(TRUE, TRUE, FALSE, FALSE, <<>>), File(TRUE, TRUE, TRUE, FALSE, <<>>)}
    \cup {File(TRUE, TRUE, TRUE, TRUE, pts) : pts \in SeqsUpTo(TrkPts, MaxPts)}

GpsInit ==
    /\ pc = "idle"
    /\ fn = [name |-> "none"]
    /\ args = <<>>
    /\ res = NotPlaced
    /\ nops = 0
    /\ reads = {}
    /\ got = NoData
    /\ opt = option_false("int", FALSE)
    /\ other = option_false("int", FALSE)
    /\ stream = <<>>
    /\ last = [name |-> "none"]
    /\ NetIdle
    /\ \E file \in Files :
           /\ track = gps_trace(file).track
           /\ gps = [name |-> "gps_trace", file |-> file, before |-> <<>>,
                     ret |-> gps_trace(file).ret]

\* a new object: gps_trace g(src);
GpsConstruct ==
    /\ \E file \in Files :
           /\ track' = gps_trace(file).track
           /\ gps' = [name |-> "gps_trace", file |-> file, before |-> <<>>,
                      ret |-> gps_trace(file).ret]
    /\ UNCHANGED <<vars, ovars, nvars>>

\* g.load_gpx_file(src);
GpsLoad ==
    /\ Len(track) + MaxPts <= MaxTrack
    /\ \E file \in Files :
           /\ track' = load_gpx_file(track, file).track
           /\ gps' = [name |-> "load_gpx_file", file |-> file, before |-> track,
                      ret |-> load_gpx_file(track, file).ret]
    /\ UNCHANGED <<vars, ovars, nvars>>

GpsNext ==
    \/ GpsConstruct
    \/ GpsLoad

GpsSpec == GpsInit /\ [][GpsNext]_gvars

(***************************************************************************)
(* A network of nodes running sharing(t, node, call_point, init, val) of   *)
(* test/coordination/basics.cpp every round: the fold by + of              *)
(* nbr(t, node, 1, init, val) with 0 in place of the node's own value.     *)
(* The nodes are 0..MaxNode; node n stores a tier and shares 8 * 2^n as a  *)
(* placed<tier, int, p, q>.                                                *)
(***************************************************************************)
MaxNode == 2

Nodes == 0..MaxNode

\* the tiers of the nodes, lower tiers first: 1, 1, 2 in the test
NodeTiers == {f \in [Nodes -> Tiers] : \A m, n \in Nodes : m < n => f[m] <= f[n]}

\* the bounds (p, q) of val: p31, p11 and p12 of the test, and one more
ProgramBounds == {<<AllOnes, 1>>, <<1, 1>>, <<1, 2>>, <<2, AllOnes>>}

\* val of node n: 8, 16, 32, ...
SharedValue(n) == Local("int", 2 * 8 * Pow2(n))

\* init of the test
SharedInit == 0 - 4

\* the type of val at node n
SharedType(n) == PlacedType(node_tier[n], "int", program.p, program.q)

\* what the round of node n exports for the call of nbr: val serialised, so
\* its payload where the tier of n is in p and nothing elsewhere
nbr_export(n) ==
    placed_serialize(placed_from_value(SharedType(n), SharedValue(n)), <<>>)

\* the nodes whose value node d sees: the senders of the exports received
\* that hold a payload, and d itself if its own export does
nbr_domain(d, from) ==
    {m \in from : exports[m] # <<>>} \cup {m \in {d} : nbr_export(d) # <<>>}

\* the result of nbr(t, node, 1, init, val) at node d: a
\* placed<tier, int, q, p>, holding where the tier of d is in q the
\* neighbouring field of the values received, init for the other nodes
nbr(d, from) ==
    LET P == PlacedType(node_tier[d], "int", program.q, program.p)
        f == [ty  |-> "int",
              fld |-> is_field_type(P),
              v   |-> [m \in Nodes |->
                          IF m = d /\ nbr_export(d) # <<>> THEN nbr_export(d)[1].v[0]
                          ELSE IF m \in nbr_domain(d, from) THEN exports[m][1].v[0]
                          ELSE SharedInit]]
    IN  Placed(P, IF option_enable(P) = 0 THEN option_false("int", is_field_type(P))
                  ELSE Option(1, "int", is_field_type(P), TRUE, f))

\* sharing(t, node, call_point, init, val): coordination::fold_hood(t, node,
\* 0, +, nbr(...), 0), the exclusive fold over the nodes seen and the node
\* itself
sharing(d, from) ==
    fold_hood(Lambda(2, "+"), nbr(d, from), Local("int", 0),
              nbr_domain(d, from) \cup {d}, d)

NetInit ==
    /\ pc = "idle"
    /\ fn = [name |-> "none"]
    /\ args = <<>>
    /\ res = NotPlaced
    /\ nops = 0
    /\ reads = {}
    /\ got = NoData
    /\ opt = option_false("int", FALSE)
    /\ other = option_false("int", FALSE)
    /\ stream = <<>>
    /\ last = [name |-> "none"]
    /\ GpsIdle
    /\ node_tier \in NodeTiers
    /\ \E b \in ProgramBounds : program = [name |-> "sharing", p |-> b[1], q |-> b[2]]
    /\ exports = [n \in Nodes |-> <<>>]
    /\ context = [node |-> 0, from |-> {}]
    /\ folded = NotPlaced

\* a round of node d, the exports of the nodes of from having reached it
\* since its last round: round_start, sharing, round_end
Round ==
    /\ \E d \in Nodes : \E from \in SUBSET (Nodes \ {d}) :
           /\ context' = [node |-> d, from |-> from]
           /\ folded' = sharing(d, from).val
           /\ exports' = [exports EXCEPT ![d] = nbr_export(d)]
    /\ UNCHANGED <<node_tier, program>>
    /\ UNCHANGED <<vars, ovars, gvars>>

\* the network is switched off and on: the exports are lost
Restart ==
    /\ folded # NotPlaced
    /\ exports' = [n \in Nodes |-> <<>>]
    /\ context' = [node |-> 0, from |-> {}]
    /\ folded' = NotPlaced
    /\ UNCHANGED <<node_tier, program>>
    /\ UNCHANGED <<vars, ovars, gvars>>

NetNext ==
    \/ Round
    \/ Restart

NetSpec == NetInit /\ [][NetNext]_nvars

(***************************************************************************)
(* Vocabulary of the properties: masks as sets of bits, the bounds of the  *)
(* placed operands of the call in the state.                               *)
(***************************************************************************)
BitsOf(m) == {k \in 0..(TierBits - 1) : (m \div Pow2(k)) % 2 = 1}

AllBits == 0..(TierBits - 1)

IsPlaced(x) == x.kind = "placed"

\* the device's tier is in the p-bound of x
Present(x) == BitsOf(x.tier) \subseteq BitsOf(x.p) /\ x.tier # 0

\* x stores nothing
Empty(x) == x.m_data.enable = 0 /\ x.m_data.m_data = NoData /\ option_size(x.m_data) = 0

PBits(x) == IF IsPlaced(x) THEN BitsOf(x.p) ELSE AllBits

QBits(x) == IF IsPlaced(x) THEN BitsOf(x.q) ELSE IF x.kind = "field" THEN AllBits ELSE {}

\* the bits in the p-bound of every operand, in the q-bound of some operand
CommonPBits == {b \in AllBits : \A k \in DOMAIN args : b \in PBits(args[k])}

SomePBits == {b \in AllBits : \E k \in DOMAIN args : b \in PBits(args[k])}

SomeQBits == {b \in AllBits : \E k \in DOMAIN args : b \in QBits(args[k])}

HasPlacedArg == \E k \in DOMAIN args : IsPlaced(args[k])

\* the tier the call runs at: the one of its placed operands
CallTier == args[CHOOSE k \in DOMAIN args : IsPlaced(args[k])].tier

\* the defaults a caller may pass to get_or
Defaults(T, fld) ==
    {[ty |-> T, fld |-> fld, v |-> Const(n)] :
        n \in IF T = "double" THEN {0, 2, 3, Sentinel} ELSE IF T = "int" THEN {0, 2, Sentinel} ELSE {2}}
    \cup (IF fld /\ T \in ValueTypes THEN {Field(T, Ramp(T))} ELSE {})

(***************************************************************************)
(* C1.  A placed value whose p-bound does not contain the device's tier    *)
(* answers get_or(d) with d, for every d, however it was produced: as the  *)
(* result of a construction, a conversion, an assignment, pmap_hood,       *)
(* fold_hood, get_or or an overloaded operator, or as an operand.          *)
(***************************************************************************)
C1_AbsentReturnsDefault ==
    /\ (pc = "done" /\ IsPlaced(res) /\ ~ Present(res)) =>
          /\ got = ConvertValue(SentinelValue(res.T), res.T, res.q # 0)
          /\ \A d \in Defaults(res.T, res.q # 0) : placed_get_or(res, d) = d
    /\ \A k \in DOMAIN args :
          (IsPlaced(args[k]) /\ ~ Present(args[k])) =>
              \A d \in Defaults(args[k].T, args[k].q # 0) : placed_get_or(args[k], d) = d

\* pmap_hood over an operand that holds data and one that is absent gave an
\* absent result, read with the default 999
C1_Witness ==
    /\ pc = "done" /\ fn.name = "pmap_hood" /\ Len(args) = 2
    /\ IsPlaced(args[1]) /\ Present(args[1])
    /\ IsPlaced(args[2]) /\ ~ Present(args[2])
    /\ IsPlaced(res) /\ ~ Present(res)
    /\ got.v[0] = Sentinel

(***************************************************************************)
(* C2.  pmap_hood and fold_hood do not evaluate op when the tier is not in *)
(* the p-bound of the result (the bits common to all operands' p-bounds);  *)
(* they return an empty placed value of the inferred bounds.               *)
(***************************************************************************)
C2_NoEvaluationWhenAbsent ==
    (/\ pc = "done" /\ fn.name \in {"pmap_hood", "fold_hood", "fold_hood_incl"}
     /\ HasPlacedArg
     /\ ~ (BitsOf(CallTier) \subseteq CommonPBits)) =>
        /\ nops = 0
        /\ IsPlaced(res) /\ Empty(res)
        /\ res.tier = CallTier
        /\ BitsOf(res.p) = CommonPBits
        /\ BitsOf(res.q) = IF fn.name = "pmap_hood" THEN SomeQBits ELSE {}

\* a pmap_hood of a present operand holding a field and an absent one
C2_Witness ==
    /\ pc = "done" /\ fn.name = "pmap_hood" /\ Len(args) = 2
    /\ IsPlaced(args[1]) /\ Present(args[1]) /\ args[1].q # 0
    /\ IsPlaced(args[2]) /\ ~ Present(args[2])
    /\ nops = 0 /\ IsPlaced(res) /\ Empty(res)

(***************************************************************************)
(* C3.  The result of pmap_hood on operands with bounds (p1,q1)..(pn,qn)   *)
(* has the p-bound p1 & ... & pn and the q-bound q1 | ... | qn (a plain    *)
(* operand counting as all-ones and 0, a field as all-ones and all-ones).  *)
(***************************************************************************)
C3_PMapBounds ==
    (pc = "done" /\ fn.name = "pmap_hood" /\ HasPlacedArg) =>
        /\ IsPlaced(res)
        /\ res.tier = CallTier
        /\ BitsOf(res.p) = CommonPBits
        /\ BitsOf(res.q) = SomeQBits

\* two placed operands whose bounds differ in both components, the result's
\* bounds being neither operand's
C3_Witness ==
    /\ pc = "done" /\ fn.name = "pmap_hood" /\ Len(args) = 2
    /\ IsPlaced(args[1]) /\ IsPlaced(args[2]) /\ IsPlaced(res)
    /\ res.p \notin {args[1].p, args[2].p}
    /\ res.q \notin {args[1].q, args[2].q}

(***************************************************************************)
(* C4.  As stated: a conversion (construction or assignment) from          *)
(* placed<tier,A,p1,q1> to placed<tier,T,p,q> is permitted exactly when A  *)
(* converts to T, p is a superset of p1 and q1 is a superset of q.         *)
(***************************************************************************)
IsConversion == pc = "done" /\ fn.name \in {"convert", "assign"}

\* the source of the conversion in the state
Source == args[Len(args)]

Accepted == res.kind # "rejected"

C4_AsStated ==
    (IsConversion /\ Source.tier = fn.P.tier) =>
        (Accepted <=> /\ is_convertible(Source.T, fn.P.T)
                      /\ BitsOf(Source.p) \subseteq BitsOf(fn.P.p)
                      /\ BitsOf(fn.P.q) \subseteq BitsOf(Source.q))

\* C4, amended: a conversion is permitted only when the tiers are equal, A
\* converts to T, p is a subset of p1 and q1 is a subset of q; every
\* conversion that grows existence or shrinks visibility is rejected.
C4_OnlyNarrowing ==
    (IsConversion /\ Accepted) =>
        /\ Source.tier = fn.P.tier
        /\ is_convertible(Source.T, fn.P.T)
        /\ BitsOf(fn.P.p) \subseteq BitsOf(Source.p)
        /\ BitsOf(Source.q) \subseteq BitsOf(fn.P.q)
        /\ TypeOf(res) = fn.P

\* an accepted conversion to another value type that strictly shrinks
\* existence and strictly grows visibility
C4_Witness ==
    /\ IsConversion /\ Accepted /\ fn.name = "convert"
    /\ Source.T # fn.P.T
    /\ fn.P.p # Source.p /\ fn.P.q # Source.q
    /\ Present(res)

(***************************************************************************)
(* C5.  Copy/move construction and copy/move assignment from               *)
(* placed<tier,A,p1,q1> are accepted whenever A converts to T, every bit   *)
(* of p is in p1 and every bit of q1 is in q.                              *)
(***************************************************************************)
C5_CompatibleAccepted ==
    (/\ IsConversion /\ Source.tier = fn.P.tier
     /\ is_convertible(Source.T, fn.P.T)
     /\ BitsOf(fn.P.p) \subseteq BitsOf(Source.p)
     /\ BitsOf(Source.q) \subseteq BitsOf(fn.P.q)) =>
        (Accepted /\ TypeOf(res) = fn.P)

(***************************************************************************)
(* C6.  When the tier is in the combined p-bound, pmap_hood gives a        *)
(* present placed value whose payload is op applied pointwise to the       *)
(* operands' payloads, and get_or(999) returns that payload.               *)
(***************************************************************************)
\* the payload of an operand: itself, or the field value a placed one stores
Payload(x) == IF IsPlaced(x) THEN x.m_data.m_data ELSE x.val

ArgTypes == [k \in DOMAIN args |-> Payload(args[k]).ty]

ArgNums(d) == [k \in DOMAIN args |-> Payload(args[k]).v[d]]

C6_PMapPayload ==
    (/\ pc = "done" /\ fn.name = "pmap_hood" /\ HasPlacedArg
     /\ BitsOf(CallTier) \subseteq CommonPBits) =>
        /\ IsPlaced(res) /\ Present(res) /\ option_size(res.m_data) = 1
        /\ Payload(res).ty = OpType(fn.f, ArgTypes)
        /\ Payload(res).fld = (SomeQBits # {})
        /\ \A d \in Devs : Payload(res).v[d] = OpApply(fn.f, ArgTypes, ArgNums(d))
        /\ got = Payload(res)

\* the int 1 plus the double 1.5 gave the double 2.5
C6_Witness ==
    /\ pc = "done" /\ fn.name = "pmap_hood" /\ fn.f = Lambda(2, "+")
    /\ IsPlaced(args[1]) /\ IsPlaced(args[2]) /\ IsPlaced(res) /\ Present(res)
    /\ args[1].T = "int" /\ args[2].T = "double" /\ res.T = "double"
    /\ Payload(args[1]).v[0] = 2 /\ Payload(args[2]).v[0] = 3
    /\ got.v[0] = 5

(***************************************************************************)
(* C7.  get_or(f1, ..., fn) returns the payload of the first operand, in   *)
(* argument order, whose p-bound contains the tier; later operands are     *)
(* ignored, present or not.                                                *)
(***************************************************************************)
PresentArgs == {k \in DOMAIN args : Present(args[k])}

FirstPresent == CHOOSE k \in PresentArgs : \A j \in PresentArgs : k <= j

C7_GetOrFirstPresent ==
    (pc = "done" /\ fn.name = "get_or" /\ Accepted /\ PresentArgs # {}) =>
        /\ option_size(res.m_data) = 1
        /\ Payload(res).ty = Payload(args[FirstPresent]).ty
        /\ Payload(res).v = Payload(args[FirstPresent]).v
        /\ reads = {FirstPresent}

\* two present operands with different payloads: the first one's is returned
C7_Witness ==
    /\ pc = "done" /\ fn.name = "get_or" /\ Len(args) = 2 /\ PresentArgs = {1, 2}
    /\ Payload(args[1]).v # Payload(args[2]).v
    /\ Payload(res).v = Payload(args[1]).v

(***************************************************************************)
(* C8.  The result of get_or(f1, ..., fn) has the p-bound p1 | ... | pn    *)
(* and the q-bound q1 | ... | qn, and is empty for the device exactly when *)
(* no operand's p-bound contains the tier.                                 *)
(***************************************************************************)
C8_GetOrBounds ==
    (pc = "done" /\ fn.name = "get_or" /\ Accepted) =>
        /\ IsPlaced(res) /\ res.tier = CallTier /\ res.T = args[1].T
        /\ BitsOf(res.p) = SomePBits
        /\ BitsOf(res.q) = SomeQBits
        /\ Empty(res) <=> PresentArgs = {}
        /\ option_size(res.m_data) = 0 <=> PresentArgs = {}

\* two operands of different bounds, none present: an empty result
C8_Witness ==
    /\ pc = "done" /\ fn.name = "get_or" /\ Len(args) = 2 /\ PresentArgs = {}
    /\ args[1].p # args[2].p
    /\ res.q \notin {args[1].q, args[2].q}
    /\ Empty(res) /\ res.p # 0

(***************************************************************************)
(* C9.  fold_hood on a placed neighbouring field whose p-bound contains    *)
(* the tier reduces the field over the domain: the inclusive form gives    *)
(* the sum of the values of the domain, the exclusive form the sum with    *)
(* the value of identity i replaced by the seed b; the result is placed    *)
(* with the operand's p-bound and the q-bound 0, and is empty when the     *)
(* operand is absent.                                                      *)
(***************************************************************************)
RECURSIVE SumOver(_, _)
SumOver(x, S) ==
    IF S = {} THEN 0
    ELSE LET d == CHOOSE e \in S : TRUE IN x.v[d] + SumOver(x, S \ {d})

FoldExpected ==
    IF fn.name = "fold_hood_incl"
    THEN SumOver(Payload(args[1]), fn.dom)
    ELSE SumOver(Payload(args[1]), fn.dom \ {fn.i}) + fn.b.v[0]

C9_FoldHoodSums ==
    (pc = "done" /\ fn.name \in {"fold_hood", "fold_hood_incl"}) =>
        /\ IsPlaced(res) /\ res.tier = args[1].tier
        /\ res.p = args[1].p /\ res.q = 0
        /\ Present(args[1]) =>
               /\ Present(res) /\ option_size(res.m_data) = 1
               /\ ~Payload(res).fld
               /\ \A d \in Devs : Payload(res).v[d] = FoldExpected
               /\ got = Payload(res)
        /\ ~Present(args[1]) => (Empty(res) /\ nops = 0)

\* an exclusive fold of a present neighbouring field of different values
\* over two identities, with a seed other than the value it replaces
C9_Witness ==
    /\ pc = "done" /\ fn.name = "fold_hood"
    /\ args[1].q # 0 /\ Present(args[1])
    /\ Cardinality(fn.dom) = 2 /\ fn.i \in fn.dom
    /\ \E d \in fn.dom : Payload(args[1]).v[d] # Payload(args[1]).v[fn.i]
    /\ fn.b.v[0] # Payload(args[1]).v[fn.i] /\ fn.b.v[0] # 0
    /\ got.v[0] = FoldExpected

(***************************************************************************)
(* C10.  An arithmetic, bitwise, comparison or logical operator with at    *)
(* least one placed operand gives what pmap_hood gives with the natural    *)
(* elementwise operation, in bounds and in payload; with no placed         *)
(* operand the overload does not apply.                                    *)
(***************************************************************************)
C10_OperatorIsPMap ==
    (pc = "done" /\ fn.name = "operator") =>
        IF HasPlacedArg
        THEN /\ res = pmap_hood(fn.f, args).val
             /\ nops = pmap_hood(fn.f, args).nops
             /\ IsPlaced(res)
             /\ BitsOf(res.p) = CommonPBits /\ BitsOf(res.q) = SomeQBits
             /\ Present(res) =>
                    \A d \in Devs :
                        Payload(res).v[d] = OpApply(fn.f, ArgTypes, ArgNums(d))
             /\ ~Present(res) => (Empty(res) /\ nops = 0)
        ELSE res = NotPlaced /\ nops = 0

\* a placed value minus a plain one, present, with a difference other than 0
C10_Witness ==
    /\ pc = "done" /\ fn.name = "operator" /\ fn.f = Lambda(2, "-")
    /\ IsPlaced(args[1]) /\ ~IsPlaced(args[2])
    /\ IsPlaced(res) /\ Present(res)
    /\ got.v[0] = Payload(args[1]).v[0] - Payload(args[2]).v[0]
    /\ got.v[0] # 0

(***************************************************************************)
(* Vocabulary of the properties on types: the leaves of a type, in         *)
(* depth-first order from left to right, whatever the qualifiers.          *)
(***************************************************************************)
RECURSIVE LeavesOf(_)
LeavesOf(xs) ==
    IF xs = <<>> THEN <<>>
    ELSE (IF Head(xs).kind = "tuple" THEN LeavesOf(Head(xs).elems)
          ELSE IF Head(xs).kind = "array" THEN LeavesOf(<<Head(xs).elem>>)
          ELSE <<Head(xs)>>) \o LeavesOf(Tail(xs))

\* the tiers of the placed types among ls
TiersOf(ls) == {ls[k].tier : k \in {j \in DOMAIN ls : IsPlaced(ls[j])}}

\* the tier of the first placed type of ls, 0 if there is none
FirstTier(ls) ==
    IF TiersOf(ls) = {} THEN 0
    ELSE ls[CHOOSE k \in DOMAIN ls :
                /\ IsPlaced(ls[k])
                /\ \A j \in 1..(k - 1) : ~ IsPlaced(ls[j])].tier

(***************************************************************************)
(* C11.  to_placed<tier, X> gives the intersection of its leaves' p-bounds *)
(* and the union of their q-bounds, a plain leaf counting (all-ones, 0), a *)
(* field (all-ones, all-ones), a placed its (p, q): tuple-like types       *)
(* combine their elements, array-like types pass their element's bounds    *)
(* on, at any depth and under any qualifier.                               *)
(***************************************************************************)
C11_ToPlacedBounds ==
    (/\ pc = "done" /\ fn.name = "to_placed"
     /\ TiersOf(LeavesOf(<<fn.type>>)) \subseteq {fn.tier}) =>
        LET ls == LeavesOf(<<fn.type>>)
        IN  /\ res.kind = "bounds"
            /\ BitsOf(res.p) = {b \in AllBits : \A k \in DOMAIN ls : b \in PBits(ls[k])}
            /\ BitsOf(res.q) = {b \in AllBits : \E k \in DOMAIN ls : b \in QBits(ls[k])}

\* a reference to an array of tuples of a field and an array of placed: the
\* p-bound is the placed's, the q-bound the field's
C11_Witness ==
    /\ pc = "done" /\ fn.name = "to_placed" /\ res.kind = "bounds"
    /\ fn.type.kind = "array" /\ fn.type.qual = "const&"
    /\ fn.type.elem.kind = "tuple"
    /\ fn.type.elem.elems[1].kind = "field"
    /\ fn.type.elem.elems[2].kind = "placed" /\ fn.type.elem.elems[2].qual = "&&"
    /\ fn.type.elem.elems[2].p = fn.tier /\ fn.type.elem.elems[2].q = fn.tier
    /\ res.p = fn.tier /\ res.q = AllOnes

(***************************************************************************)
(* C12.  extract_tier<Ts...> is the tier of the first placed type met from *)
(* left to right, tuple-like and array-like types being descended into     *)
(* through their qualifiers, and 0 if there is none; is_placed<Ts...> is   *)
(* true exactly when extract_tier<Ts...> is not 0.                         *)
(***************************************************************************)
C12_ExtractTierFirst ==
    (pc = "done" /\ fn.name = "extract_tier") =>
        /\ res.tier = FirstTier(LeavesOf(fn.types))
        /\ res.is_placed = (res.tier # 0)

\* a plain type, then a tuple of a placed and an array of a placed of
\* another tier: the tier is the first one's
C12_Witness ==
    /\ pc = "done" /\ fn.name = "extract_tier" /\ Len(fn.types) = 2
    /\ fn.types[1].kind = "local"
    /\ fn.types[2].kind = "tuple" /\ fn.types[2].qual = "const&"
    /\ fn.types[2].elems[1].kind = "placed"
    /\ fn.types[2].elems[2].kind = "array" /\ fn.types[2].elems[2].qual = "const&&"
    /\ fn.types[2].elems[2].elem.kind = "placed"
    /\ fn.types[2].elems[2].elem.tier # fn.types[2].elems[1].tier
    /\ res.tier = fn.types[2].elems[1].tier /\ res.is_placed

(***************************************************************************)
(* C13.  pmap_hood, an overloaded operator and to_placed on placed         *)
(* operands of more than one tier are rejected: there is no result and op  *)
(* is not evaluated.                                                       *)
(***************************************************************************)
C13_MixedTiersRejected ==
    /\ (pc = "done" /\ fn.name = "mixed" /\ Cardinality(TiersOf(args)) > 1) =>
           (res = Rejected /\ nops = 0 /\ reads = {})
    /\ (pc = "done" /\ fn.name = "to_placed"
           /\ Cardinality(TiersOf(LeavesOf(<<fn.type>>))) > 1) =>
           (res = Rejected /\ nops = 0 /\ reads = {})

\* the sum of two placed values of different tiers, each holding data
C13_Witness ==
    /\ pc = "done" /\ fn.name = "mixed" /\ fn.call = "operator"
    /\ IsPlaced(args[1]) /\ IsPlaced(args[2]) /\ args[1].tier # args[2].tier
    /\ args[1].m_data.enable = 1 /\ args[2].m_data.enable = 1
    /\ res = Rejected /\ nops = 0

Holds(o) == o.enable = 1 \/ (o.enable = 2 /\ o.m_some)

\* the flags are equal and, if both hold a value, so are the values
SameContent(a, b) ==
    /\ a.m_some = b.m_some
    /\ (a.m_some /\ b.m_some) => a.m_data = b.m_data

\* T{}
Zero(o) == [ty |-> o.ty, fld |-> o.fld, v |-> [d \in Devs |-> 0]]

(***************************************************************************)
(* C15.  In every state reached by constructing, copying, assigning,       *)
(* converting, writing through front(), emplace and clear, an option of    *)
(* any mode has size() 0 or 1, empty() exactly when size() is 0, and the   *)
(* iteration from begin() to end() visits size() elements, each the stored *)
(* value.                                                                  *)
(***************************************************************************)
C15_SizeEmptyIterate ==
    /\ \A o \in {opt, other} :
          /\ option_size(o) \in {0, 1}
          /\ option_empty(o) = (option_size(o) = 0)
          /\ Len(option_iterate(o)) = option_size(o)
          /\ option_size(o) = (IF Holds(o) THEN 1 ELSE 0)
          /\ \A k \in DOMAIN option_iterate(o) : option_iterate(o)[k] = o.m_data
    /\ last.name = "iterate" =>
          /\ last.size = Len(last.visited)
          /\ last.empty = (last.visited = <<>>)
          /\ last.visited = IF Holds(opt) THEN <<opt.m_data>> ELSE <<>>

\* an empty run-time option whose slot was written through front(): the
\* iteration visits nothing
C15_Witness ==
    /\ last.name = "iterate" /\ opt.enable = 2
    /\ ~ opt.m_some /\ opt.m_data # Zero(opt)
    /\ last.visited = <<>> /\ last.size = 0 /\ last.empty

(***************************************************************************)
(* C16.  A default-constructed run-time option has size 0; emplace(v)      *)
(* leaves size 1 and front() = v, from any state; clear() leaves size 0    *)
(* and the slot T{}, from any state.                                       *)
(***************************************************************************)
C16_DefaultEmplaceClear ==
    /\ (last.name = "default" /\ opt.enable = 2) => option_size(opt) = 0
    /\ last.name = "emplace" => (option_size(opt) = 1 /\ option_front(opt) = last.arg)
    /\ last.name = "clear" => (option_size(opt) = 0 /\ opt.m_data = Zero(opt))

\* clear() of an option that held a value other than T{}
C16_Witness ==
    /\ last.name = "clear"
    /\ last.pre.m_some /\ last.pre.m_data # Zero(opt)
    /\ option_size(opt) = 0 /\ opt.m_data = Zero(opt)

(***************************************************************************)
(* C17.  get_or(d) returns the stored value if the option holds one and d  *)
(* otherwise: d in never-mode, the stored value in always-mode, by the     *)
(* flag in run-time mode; a second call returns the same and the option is *)
(* what it was.                                                            *)
(***************************************************************************)
C17_GetOr ==
    last.name = "get_or" =>
        /\ last.ret = IF Holds(opt) THEN opt.m_data ELSE last.arg
        /\ last.again = last.ret
        /\ opt = last.pre

\* an empty run-time option with a slot other than the default passed
C17_Witness ==
    /\ last.name = "get_or" /\ opt.enable = 2 /\ ~ opt.m_some
    /\ opt.m_data # last.arg /\ opt.m_data # Zero(opt)
    /\ last.ret = last.arg

(***************************************************************************)
(* C18.  A never-mode option discards what it is constructed or assigned   *)
(* from: it has size 0, is empty, iterates over nothing, equals every      *)
(* never-mode option of its type, front() and back() return T{} and        *)
(* get_or(d) returns d.                                                    *)
(***************************************************************************)
C18_NeverMode ==
    opt.enable = 0 =>
        /\ option_size(opt) = 0 /\ option_empty(opt)
        /\ option_iterate(opt) = <<>>
        /\ \A o \in OptionValues(0, opt.ty) \cup {other} : option_eq(opt, o) /\ option_eq(o, opt)
        /\ option_front(opt) = Zero(opt) /\ option_back(opt) = Zero(opt)
        /\ \A d \in LocalValues(opt.ty) : option_get_or(opt, d) = d
        /\ last.name = "iterate" =>
              /\ last.size = 0 /\ last.empty /\ last.visited = <<>>
              /\ last.front = Zero(opt) /\ last.back = Zero(opt)
        /\ last.name = "get_or" => last.ret = last.arg
        /\ last.name = "==" => last.ret

\* option<int, false> built from a value other than 0, then read
C18_Witness ==
    /\ opt.enable = 0 /\ opt.ty = "int"
    /\ last.name = "iterate" /\ last.front = Zero(opt) /\ last.size = 0
    /\ option_forward(0, "int", FALSE, Local("int", 2 * MaxVal)) = opt

(***************************************************************************)
(* C19.  Two run-time options are equal exactly when their flags are equal *)
(* and, if both hold a value, the values are equal: two empty options are  *)
(* equal whatever their slots hold; the relation is reflexive and          *)
(* symmetric; a copy and a moved copy equal the original.                  *)
(***************************************************************************)
C19_RuntimeEquality ==
    opt.enable = 2 =>
        /\ option_eq(opt, other) = SameContent(opt, other)
        /\ option_eq(opt, opt) /\ option_eq(other, other)
        /\ option_eq(opt, other) = option_eq(other, opt)
        /\ last.name \in {"copy", "move"} => (option_eq(other, opt) /\ option_eq(opt, other))
        /\ last.name = "==" =>
              /\ last.ret = SameContent(opt, other)
              /\ last.rev = last.ret /\ last.self

\* two empty options with different slots compare equal
C19_Witness ==
    /\ last.name = "==" /\ opt.enable = 2
    /\ ~ opt.m_some /\ ~ other.m_some /\ opt.m_data # other.m_data
    /\ last.ret /\ last.rev

(***************************************************************************)
(* C20.  An option of any mode, or a placed value, serialised and then     *)
(* deserialised into an object of the same type, whatever that object      *)
(* held, gives an object equal to the original.                            *)
(***************************************************************************)
C20_RoundTrip ==
    /\ last.name = "deserialize" =>
          /\ option_eq(other, last.src) /\ option_eq(last.src, other)
          /\ Holds(other) = Holds(last.src)
          /\ Holds(other) => other.m_data = last.src.m_data
          /\ stream = <<>>
    /\ last.name = "placed_deserialize" =>
          /\ TypeOf(last.dst) = TypeOf(last.src)
          /\ option_eq(last.dst.m_data, last.src.m_data)
          /\ Holds(last.dst.m_data) = Holds(last.src.m_data)
          /\ Holds(last.dst.m_data) => last.dst.m_data.m_data = last.src.m_data.m_data
          /\ stream = <<>>

\* a value read into an empty run-time option that held another one in its
\* slot
C20_Witness ==
    /\ last.name = "deserialize" /\ other.enable = 2
    /\ last.src.m_some /\ ~ last.pre.m_some
    /\ last.pre.m_data # last.src.m_data /\ last.pre.m_data # Zero(other)
    /\ other = last.src

(***************************************************************************)
(* C21.  Serialising an option writes nothing in never-mode, the payload   *)
(* alone in always-mode, and in run-time mode the presence flag followed   *)
(* by the payload exactly when the flag is true; reading an option         *)
(* consumes exactly the items the writer of the same mode produced for it, *)
(* leaving what was written after them.                                    *)
(***************************************************************************)
\* the number of items os << o writes
ItemCount(o) ==
    IF o.enable = 0 THEN 0
    ELSE IF o.enable = 1 \/ o.m_some THEN o.enable
    ELSE 1

C21_SerializeFormat ==
    /\ last.name = "serialize" =>
          /\ Len(stream) = ItemCount(last.src)
          /\ last.src.enable = 1 => stream[1] = last.src.m_data
          /\ last.src.enable = 2 =>
                /\ stream[1] \in {stream_bool(TRUE), stream_bool(FALSE)}
                /\ stream_flag(stream[1]) = last.src.m_some
                /\ last.src.m_some => stream[2] = last.src.m_data
    /\ last.name = "serialize_two" =>
          Len(stream) = ItemCount(last.src) + ItemCount(last.src2)
    /\ last.name = "deserialize_first" =>
          /\ Len(last.written) - Len(stream) = ItemCount(last.src)
          /\ stream = SubSeq(last.written, ItemCount(last.src) + 1, Len(last.written))
          /\ Holds(other) = Holds(last.src)
          /\ Holds(other) => other.m_data = last.src.m_data

\* an empty run-time option whose slot is not T{} written before one holding
\* a value: the first read takes the flag alone and leaves flag and payload
C21_Witness ==
    /\ last.name = "deserialize_first" /\ other.enable = 2
    /\ ~ last.src.m_some /\ last.src.m_data # Zero(other)
    /\ last.src2.m_some
    /\ Len(last.written) = 3 /\ Len(stream) = 2
    /\ stream[2] = last.src2.m_data

(***************************************************************************)
(* C22.  Accessing a non-existent value returns the default value of T: in *)
(* every state reached through construction, assignment, writes through    *)
(* front(), emplace, clear and deserialisation, front(), back() and the    *)
(* conversion to T of an empty option give T{}.                            *)
(***************************************************************************)
C22_EmptyReadsDefault ==
    /\ \A o \in {opt, other} :
          option_empty(o) =>
              /\ option_front(o) = Zero(o)
              /\ option_back(o) = Zero(o)
              /\ option_to_T(o) = Zero(o)
    /\ (last.name = "iterate" /\ last.empty) =>
          /\ last.front = Zero(opt)
          /\ last.back = Zero(opt)
          /\ last.value = Zero(opt)

FieldResult == IF IsPlaced(res) THEN Present(res) /\ res.q # 0 ELSE res.kind = "field"

C24_SwapExchanges ==
    (pc = "done" /\ fn.name = "swap") =>
        /\ res # Rejected
        /\ res.a = args[2] /\ res.b = args[1]
        /\ placed_swap(res.a, res.b) # Rejected
        /\ placed_swap(res.a, res.b).a = args[1]
        /\ placed_swap(res.a, res.b).b = args[2]

(***************************************************************************)
(* C26.  With variable tiers an invocation of the main of PMAIN() on a     *)
(* node returns having run the tier-parametrised body at most once: once   *)
(* with tier equal to the value stored under the tier tag when that value  *)
(* is 1 << k for a k below FCPP_TIERS_MAX, and not at all for any other    *)
(* stored value.                                                           *)
(***************************************************************************)
C26_PMainDispatch ==
    (pc = "done" /\ fn.name = "PMAIN") =>
        /\ res # Rejected
        /\ Len(res.body) <= 1
        /\ res.body = IF \E k \in 0..(FCPP_TIERS_MAX - 1) : fn.stored = Pow2(k)
                      THEN <<fn.stored>> ELSE <<>>

(***************************************************************************)
(* C27.  load_gpx_file returns true if the call loaded at least one track  *)
(* point and false otherwise (the file does not open, is not parsed, has   *)
(* no gpx root, no trk child or no trkpt with both lat and lon), in every  *)
(* sequence of calls on one gps_trace object.                              *)
(***************************************************************************)
C27_TrueIffLoaded ==
    gps.name = "load_gpx_file" => (gps.ret <=> Len(track) > Len(gps.before))

(***************************************************************************)
(* C25.  Across rounds, the value a node shares through nbr as a placed    *)
(* value of bounds (p, q) contributes to the neighbouring field of a node  *)
(* that has received it exactly when the tier of the receiver is in q and  *)
(* the tier of the sender in p; the fold of that field is a placed value   *)
(* of p-bound q and q-bound 0, absent at the nodes whose tier is not in q, *)
(* and elsewhere the sum of the values of the senders with a tier in p.    *)
(***************************************************************************)
\* the numbers shared by the nodes of S, added up
RECURSIVE SharedSum(_)
SharedSum(S) ==
    IF S = {} THEN 0
    ELSE LET m == CHOOSE e \in S : TRUE IN 2 * 8 * Pow2(m) + SharedSum(S \ {m})

\* the nodes that have run a round since the network started
Exported == {m \in Nodes : exports[m] # <<>>}

C25_NbrContributes ==
    folded # NotPlaced =>
        /\ \A m \in Exported : BitAnd(node_tier[m], program.p) # 0
        /\ IsPlaced(folded)
        /\ folded.tier = node_tier[context.node]
        /\ folded.p = program.q /\ folded.q = 0
        /\ BitAnd(node_tier[context.node], program.q) = 0 => Empty(folded)
        /\ BitAnd(node_tier[context.node], program.q) # 0 =>
              /\ option_size(folded.m_data) = 1
              /\ \E S \in SUBSET (context.from \cap {m \in Nodes : BitAnd(node_tier[m], program.p) # 0}) :
                    Payload(folded) = Local("int", SharedSum(S))
              /\ context.from \subseteq Exported =>
                    Payload(folded) = Local("int", SharedSum(
                        {m \in context.from : BitAnd(node_tier[m], program.p) # 0}))

\* nodes of tiers 1, 1, 2 sharing 8, 16, 32 under the bounds (3, 1): node 0,
\* having received from both others, folds 16 and 32 to 48
C25_Witness ==
    /\ node_tier[0] = 1 /\ node_tier[1] = 1 /\ node_tier[2] = 2
    /\ program.p = 3 /\ program.q = 1
    /\ context.node = 0 /\ context.from = {1, 2} /\ {1, 2} \subseteq Exported
    /\ IsPlaced(folded) /\ folded.p = 1 /\ folded.q = 0
    /\ Payload(folded) = Local("int", 2 * 48)

(***************************************************************************)
(* C28.  The presence of a placed value is fixed by its type: whatever     *)
(* produced it (default construction, construction from a value or a       *)
(* field, conversion, assignment, deserialisation, an operation), a        *)
(* placed<tier, T, p, q> holds a value, get().size() == 1, exactly when    *)
(* tier & p is not 0, and its option is never of the run-time mode.        *)
(***************************************************************************)
\* the placed values of the state: the operands and the result of the call
PlacedOfState ==
    {args[k] : k \in {j \in DOMAIN args : IsPlaced(args[j])}}
        \cup (IF pc = "done" /\ IsPlaced(res) THEN {res} ELSE {})

C28_PresenceByType ==
    \A x \in PlacedOfState :
        /\ x.m_data.enable \in {0, 1}
        /\ option_size(x.m_data) \in {0, 1}
        /\ (option_size(x.m_data) = 1) <=> (BitAnd(x.tier, x.p) # 0)
        /\ option_empty(x.m_data) <=> (BitAnd(x.tier, x.p) = 0)

\* an absent value read from the stream an absent value was written to, and
\* a present one
C28_Witness ==
    /\ pc = "done" /\ fn.name = "deserialize"
    /\ IsPlaced(res) /\ res.p # 0 /\ BitAnd(res.tier, res.p) = 0
    /\ option_size(res.m_data) = 0 /\ res.m_data.enable = 0

(***************************************************************************)
(* C29.  An accepted conversion of a placed<tier, A, p1, q1> to a          *)
(* placed<tier, T, p, q>, by construction or by assignment, never makes    *)
(* data exist where the source had none: if the target holds a value at    *)
(* the tier, so did the source, and the payload of the target is that of   *)
(* the source converted to the field type of the target.                   *)
(***************************************************************************)
C29_ConversionKeepsData ==
    (IsConversion /\ Accepted /\ option_size(res.m_data) = 1) =>
        /\ option_size(Source.m_data) = 1
        /\ BitAnd(Source.tier, Source.p) # 0
        /\ Payload(res).ty = res.T
        /\ Payload(res).fld = (res.q # 0)
        /\ \A d \in Devs :
              Payload(res).v[d] = ConvertNum(Source.T, res.T, Payload(Source).v[d])

\* a double that is not whole, present everywhere and local, converted to an
\* int visible somewhere, hence a neighbouring field of the truncated value
C29_Witness ==
    /\ IsConversion /\ Accepted /\ option_size(res.m_data) = 1
    /\ Source.T = "double" /\ res.T = "int"
    /\ Source.q = 0 /\ res.q # 0 /\ res.p # Source.p
    /\ Payload(Source).v[0] % 2 = 1
    /\ Payload(res).v[0] = Payload(Source).v[0] - 1

(***************************************************************************)
(* C30.  Whenever pmap_hood, fold_hood, self or get_or reads the payload   *)
(* of a placed operand through the unchecked accessor, the p-bound of that *)
(* operand contains the tier of the device: no absent operand is read.     *)
(***************************************************************************)
C30_ReadsOnlyPresent ==
    (pc = "done"
       /\ fn.name \in {"pmap_hood", "operator", "fold_hood", "fold_hood_incl", "self", "get_or"}) =>
        \A k \in reads :
            /\ k \in DOMAIN args /\ IsPlaced(args[k])
            /\ BitAnd(args[k].tier, args[k].p) # 0
            /\ option_size(args[k].m_data) = 1

\* get_or of an absent operand and a present one: the second alone is read
C30_Witness ==
    /\ pc = "done" /\ fn.name = "get_or" /\ Len(args) = 2
    /\ BitAnd(args[1].tier, args[1].p) = 0 /\ args[1].p # 0
    /\ BitAnd(args[2].tier, args[2].p) # 0
    /\ reads = {2}

====
